---- MODULE Spec2Model ----
(***************************************************************************)
(* A state-machine model of termusic's podcast task layer                  *)
(* (lib/src/podcast/mod.rs) and of the library indexer                     *)
(* (lib/src/library_db/mod.rs).                                            *)
(*                                                                         *)
(* Two specifications share the module:                                    *)
(*   SpecPodcast  check_feed / download_list tasks and the event channel   *)
(*   SpecSync     sync_database passes over a changing file system         *)
(*   SpecSync2    the same with two sync threads on clones of DataBase     *)
(***************************************************************************)
EXTENDS Integers, Sequences, FiniteSets, TLC

(***************************************************************************)
(* Bounds of the model.                                                    *)
(***************************************************************************)
\* tasks handed to the task pool in one run
MaxTasks == 2
\* largest retry budget (max_download_retries) tried; 0 is included
MaxRetries == 2
\* cap on the requests one task sends (a wrapped counter allows 2^64 of them)
MaxRequests == MaxRetries + 1
\* file system changes in one run
MaxFsOps == 1
\* sync passes in one run
MaxPasses == 2
\* latest whole second a Lyric is asked about
MaxQuery == 3
\* pieces (numbers, colons, other characters) of a duration string
MaxPieces == 5
\* podcasts exported, and outlines at the top of an OPML document
MaxOutlines == 2

\* adjust_offset calls on one Lyric after its first
MaxAdjusts == 1
\* greatest id the database gives a podcast while the TUI adds and removes
MaxPodId == 3
\* lines of an LRC text, and captions of a Lyric built directly
MaxLines == 3
\* largest seconds field of a time tag
MaxSeconds == 3

VARIABLES
    tasks,            \* the futures handed to TaskPool::execute, in submission order
    calls,            \* what each check_feed / download_list call was given
    chan,             \* chan[t]: the messages task t sent on its clone of tx_to_main,
                      \* in send order (the channel keeps the order of each producer)
    concurrent_downloads_max,  \* the size the TaskPool was made with
    max_download_retries,  \* the configured retry budget every caller passes
    disk,             \* the file system: path -> mtime in seconds, Absent when no file
    catalog,          \* the rows of table tracks
    max_depth,        \* DataBase::max_depth
    sync,             \* sync[s]: the thread sync_database spawned on clone s
    env,              \* how many file system changes and passes there have been
    observed,         \* whether the last get_all_records saw the inserts of the
                      \* running pass beside rows of files that are gone
    rx,               \* the receiving half of the channel: whether it is open, and
                      \* rx.read[t], how many messages of chan[t] it has taken
    imp,              \* the locals of a call of import_from_opml
    db,               \* the podcast database: the rows of its podcasts
    episodes,         \* the podcast database: the rows of its episodes
    ui,               \* the main loop of the TUI: running, quit or panicked
    arena,            \* the TUI's podcast list and podcasts_index
    lyric,            \* an LRC text and the Lyric made of it
    reply,            \* the last call on the Lyric and what it returned
    dur,              \* a call of duration_to_int: its argument and result
    opml,             \* an OPML export and import: podcasts, document, feeds
    pos,              \* a set_last_position call and the get_last_position after it
    adjusts,          \* how many adjust_offset calls followed the first on the Lyric
    wire,             \* an UpdateEvents value, the message made of it, what it decodes to
    handled           \* the last podcast handler run on the arena, and how it ended

config == <<max_download_retries, concurrent_downloads_max>>

podVars == <<tasks, calls, chan, config>>

syncVars == <<disk, catalog, max_depth, sync, env, observed>>

uiVars == <<rx, imp, db, episodes, ui, arena>>

lrcVars == <<lyric, reply>>

libVars == <<dur, opml>>

moreVars == <<pos, adjusts, wire, handled>>

\* what the podcast tasks leave alone, what the indexer leaves alone, and what
\* the TUI's podcast handlers leave alone besides the podcast tasks
offPod == <<syncVars, uiVars, lrcVars, libVars, moreVars>>
offSync == <<podVars, uiVars, lrcVars, libVars, moreVars>>
offUi == <<syncVars, lrcVars, libVars, moreVars>>

vars == <<podVars, syncVars, uiVars, lrcVars, libVars, moreVars>>

(***************************************************************************)
(* lib/src/songtag/lrc.rs                                                  *)
(***************************************************************************)
\* `old_caption.timestamp - item.timestamp < 2000`
MergeWindow == 2000

\* a decimal number as it stands in the text: its digits
RECURSIVE Num(_)
Num(digits) ==
    IF digits = <<>>
    THEN 0
    ELSE Num(SubSeq(digits, 1, Len(digits) - 1)) * 10 + digits[Len(digits)]

RECURSIVE Digits(_)
Digits(n) == IF n < 10 THEN <<n>> ELSE Append(Digits(n \div 10), n % 10)

\* `{n:02}`: at least two digits
Pad2(n) == IF n < 10 THEN <<0, n>> ELSE Digits(n)

\* a signed integer as `{}` writes it and str::parse::<i64> reads it
Signed(n) == [neg |-> n < 0, digits |-> Digits(IF n < 0 THEN -n ELSE n)]

Int64(t) == IF t.neg THEN -Num(t.digits) ELSE Num(t.digits)

NoNumber == [neg |-> FALSE, digits |-> <<>>]

\* the fraction fields tried: "00", "50" (centiseconds) and "999"
\* (milliseconds)
Fracs == {<<0, 0>>, <<5, 0>>, <<9, 9, 9>>}

\* [offset:N]
Offsets == {-500, 10}

\* one line of an LRC text: a time tag [m:s.f] with the text after it, an
\* offset tag [offset:n], another tag ([ti:..], whose "time" does not parse),
\* a line that does not start with '[', or an empty line
Line(kind, m, s, f, n, text) ==
    [kind |-> kind, m |-> m, s |-> s, f |-> f, n |-> n, text |-> text]

\* the lines tried, before the time lines get their texts; "bare" is the
\* time line [00:00.00] with nothing after the tag
Lines ==
    {Line("time", <<0, 0>>, Pad2(s), f, NoNumber, <<>>) :
        s \in 0..MaxSeconds, f \in Fracs}
    \cup {Line("offset", <<>>, <<>>, <<>>, Signed(n), <<>>) : n \in Offsets}
    \cup {Line(k, <<>>, <<>>, <<>>, NoNumber, <<>>) :
            k \in {"tag", "plain", "blank"}}
    \cup {Line("bare", <<0, 0>>, <<0, 0>>, <<0, 0>>, NoNumber, <<>>)}

\* the text after ']' of the i-th line, as a sequence of pieces, so that the
\* "  " put between merged texts can be told from the texts
TextOf(i) == <<ToString(i)>>

TwoSpaces == <<"  ">>

WithText(l, i) ==
    CASE l.kind = "time" -> [l EXCEPT !.text = TextOf(i)]
      [] l.kind = "bare" -> [l EXCEPT !.kind = "time"]
      [] OTHER -> l

\* the lines of a text, and the text of them
LineLists == UNION {[1..n -> Lines] : n \in 0..MaxLines}

LrcText(ls) == [i \in DOMAIN ls |-> WithText(ls[i], i)]

\* str::trim() at the end of a line: the white space after the last text
RECURSIVE TrimEnd(_)
TrimEnd(text) ==
    IF text # <<>> /\ <<text[Len(text)]>> = TwoSpaces
    THEN TrimEnd(SubSeq(text, 1, Len(text) - 1))
    ELSE text

Caption(timestamp, text) == [timestamp |-> timestamp, text |-> text]

\* Caption::parse_time on the three numbers of "m:s.f"; the sum is far
\* below 2^63, so try_into() of parse_line never falls back to 0
parse_time(m, s, f) ==
    LET centis_or_millis == Num(f)
        millis == IF centis_or_millis < 99
                  THEN centis_or_millis * 10
                  ELSE centis_or_millis
    IN  (Num(m) * 60 + Num(s)) * 1000 + millis

\* the loop of from_str over the lines from the i-th on
RECURSIVE ParseLines(_, _, _)
ParseLines(text, i, acc) ==
    IF i > Len(text)
    THEN acc
    ELSE LET l == text[i]
         IN  CASE l.kind = "blank" -> ParseLines(text, i + 1, acc)
               [] l.kind = "offset" ->
                    ParseLines(text, i + 1,
                               [acc EXCEPT !.offset = Int64(l.n)])
               [] l.kind = "plain" -> ParseLines(text, i + 1, acc)
               [] l.kind = "tag" -> ParseLines(text, i + 1, acc)
               [] l.kind = "time" ->
                    ParseLines(text, i + 1,
                        [acc EXCEPT !.captions =
                            Append(@, Caption(parse_time(l.m, l.s, l.f),
                                              TrimEnd(l.text)))])

\* captions.sort_by(|a, b| a.timestamp.cmp(&b.timestamp)): a stable sort
RECURSIVE sort_by_timestamp(_)
sort_by_timestamp(caps) ==
    IF caps = <<>>
    THEN <<>>
    ELSE LET c == caps[Len(caps)]
             s == sort_by_timestamp(SubSeq(caps, 1, Len(caps) - 1))
             k == Cardinality({j \in DOMAIN s : s[j].timestamp <= c.timestamp})
         IN  SubSeq(s, 1, k) \o <<c>> \o SubSeq(s, k + 1, Len(s))

\* Vec::remove(k), k counted from 1
Remove(seq, k) == SubSeq(seq, 1, k - 1) \o SubSeq(seq, k + 1, Len(seq))

\* the loop of merge_adjacent from the i-th caption on (i counted from 1, so
\* merged_captions[i - offset] of the code is merged[i - offset] here)
RECURSIVE MergeFrom(_, _, _, _)
MergeFromPredecessor(captions, merged, offset, i) ==
    IF i > Len(captions)
    THEN merged
    ELSE IF /\ i - offset \in DOMAIN merged
            /\ captions[i].timestamp - captions[i - 1].timestamp < MergeWindow
         THEN MergeFrom(captions,
                  Remove([merged EXCEPT ![i - offset].text =
                             @ \o TwoSpaces \o captions[i].text],
                         i - offset + 1),
                  offset + 1, i + 1)
         ELSE MergeFrom(captions, merged, offset, i + 1)

MergeFrom(captions, merged, offset, i) ==
    IF i > Len(captions)
    THEN merged
    ELSE IF /\ i - offset \in DOMAIN merged
            /\ captions[i].timestamp - merged[i - offset].timestamp
                  < MergeWindow
         THEN MergeFrom(captions,
                  Remove([merged EXCEPT ![i - offset].text =
                             @ \o TwoSpaces \o captions[i].text],
                         i - offset + 1),
                  offset + 1, i + 1)
         ELSE MergeFrom(captions, merged, offset, i + 1)

MergeAdjacentNone(captions) == captions

merge_adjacent(captions) == MergeFrom(captions, captions, 1, 2)

\* the captions of the lines, before they are sorted
Parsed(text) == ParseLines(text, 1, [offset |-> 0, captions |-> <<>>])

FromStrAsRead(text) == Parsed(text)

\* <Lyric as FromStr>::from_str
from_str(text) ==
    [offset |-> Parsed(text).offset,
     captions |-> merge_adjacent(sort_by_timestamp(Parsed(text).captions))]

\* the timestamps tried for a Lyric built directly, as the tests build it
Stamps ==
    {parse_time(<<0, 0>>, Pad2(s), f) : s \in 0..MaxSeconds, f \in Fracs}

IsSorted(caps) ==
    \A i \in 1..(Len(caps) - 1) : caps[i].timestamp <= caps[i + 1].timestamp

SortedCaptions ==
    {caps \in UNION {[1..n -> Stamps] : n \in 0..MaxLines} :
        \A i \in 1..(Len(caps) - 1) : caps[i] <= caps[i + 1]}

Built(stamps) == [i \in DOMAIN stamps |-> Caption(stamps[i], TextOf(i))]

\* pc: "text" an LRC text to parse, "parsed" the Lyric from_str made of it,
\* "built" a Lyric built directly, "merged" that Lyric after merge_adjacent;
\* before: the captions as merge_adjacent found them
LyricOf(pc, text, offset, before, captions) ==
    [pc |-> pc, text |-> text, offset |-> offset, before |-> before,
     captions |-> captions]

\* `time + 2000` of get_text
Bias == 2000

\* `time < 11` of adjust_offset
FineFrom == 11

Max(a, b) == IF a >= b THEN a ELSE b

Abs(a) == IF a < 0 THEN -a ELSE a

\* the loop of get_text from the i-th caption on
RECURSIVE TextAt(_, _, _, _)
TextAt(captions, i, time, text) ==
    IF i > Len(captions) \/ time < captions[i].timestamp
    THEN text
    ELSE TextAt(captions, i + 1, time, captions[i].text)

GetTextNoBias(l, time) ==
    IF l.captions = <<>>
    THEN [some |-> FALSE, text |-> <<>>]
    ELSE [some |-> TRUE,
          text |-> TextAt(l.captions, 1, Max(time + l.offset, 0),
                          l.captions[1].text)]

GetTextNoneBeforeFirst(l, time) ==
    IF l.captions = <<>>
    THEN [some |-> FALSE, text |-> <<>>]
    ELSE LET adjusted_time == Max(0, time + Bias + l.offset)
         IN  IF adjusted_time < l.captions[1].timestamp
             THEN [some |-> FALSE, text |-> <<>>]
             ELSE [some |-> TRUE,
                   text |-> TextAt(l.captions, 1, adjusted_time,
                                   l.captions[1].text)]

\* Lyric::get_text, time in milliseconds (Duration::as_millis)
get_text(l, time) ==
    IF l.captions = <<>>
    THEN [some |-> FALSE, text |-> <<>>]
    ELSE LET adjusted_time == time + Bias + l.offset
         IN  [some |-> TRUE,
              text |-> TextAt(l.captions, 1,
                              IF adjusted_time < 0 THEN 0 ELSE adjusted_time,
                              l.captions[1].text)]

\* the loop of get_index from the i-th caption on; index counts from 0
RECURSIVE IndexAt(_, _, _, _)
IndexAt(captions, i, time, index) ==
    IF i > Len(captions) \/ time < captions[i].timestamp
    THEN index
    ELSE IndexAt(captions, i + 1, time, i - 1)

\* Lyric::get_index
get_index(l, time) ==
    IF l.captions = <<>>
    THEN [some |-> FALSE, index |-> 0]
    ELSE [some |-> TRUE,
          index |-> IndexAt(l.captions, 1, Abs(time + l.offset), 0)]

\* Lyric::adjust_offset, time in milliseconds
AdjustOffsetNoSort(l, time, offset) ==
    LET index == get_index(l, time)
    IN  IF ~index.some \/ index.index = 0 \/ time < FineFrom
        THEN [l EXCEPT !.offset = IF index.some THEN @ + offset ELSE @]
        ELSE [l EXCEPT !.captions[index.index + 1].timestamp =
                           Max(@ + offset, 0)]

adjust_offset(l, time, offset) ==
    LET index == get_index(l, time)
        adjusted ==
            IF ~index.some
            THEN l
            ELSE IF index.index = 0 \/ time < FineFrom
                 THEN [l EXCEPT !.offset = @ + offset]
                 ELSE [l EXCEPT !.captions[index.index + 1].timestamp =
                                    IF @ + offset > 0 THEN @ + offset ELSE 0]
    IN  [adjusted EXCEPT !.captions = sort_by_timestamp(@)]

\* time_lrc: the three fields of "mm:ss.cc"
TimeLrcAllMinutes(time_stamp) ==
    [m |-> Pad2((time_stamp \div 1000) \div 60),
     s |-> Pad2((time_stamp \div 1000) % 60),
     f |-> Pad2((time_stamp % 1000) \div 10)]

time_lrc(time_stamp) ==
    [m |-> Pad2(((time_stamp \div 1000) \div 60) % 60),
     s |-> Pad2((time_stamp \div 1000) % 60),
     f |-> Pad2((time_stamp % 1000) \div 10)]

\* Caption::as_lrc; a negative timestamp is written as 0
as_lrc(caption) ==
    LET t == time_lrc(IF caption.timestamp < 0 THEN 0 ELSE caption.timestamp)
    IN  Line("time", t.m, t.s, t.f, NoNumber, caption.text)

\* Lyric::as_lrc_text: the lines it writes
as_lrc_text(l) ==
    (IF l.offset # 0
     THEN <<Line("offset", <<>>, <<>>, <<>>, Signed(l.offset), <<>>)>>
     ELSE <<>>)
    \o [i \in DOMAIN l.captions |-> as_lrc(l.captions[i])]

\* the Lyric of the state: what the struct holds
Held == [offset |-> lyric.offset, captions |-> lyric.captions]

NoLyric == [offset |-> 0, captions |-> <<>>]

\* op: the call; time, delta: its arguments; some, index, text, lines, made:
\* what it returned (made: the Lyric from_str made of the lines written)
ReplyOf(op, time, delta, some, index, text, lines, made) ==
    [op |-> op, time |-> time, delta |-> delta, some |-> some,
     index |-> index, text |-> text, lines |-> lines, made |-> made]

NoReply == ReplyOf("none", 0, 0, FALSE, 0, <<>>, <<>>, NoLyric)

LrcIdle ==
    /\ lyric = LyricOf("idle", <<>>, 0, <<>>, <<>>)
    /\ reply = NoReply

offLrc == <<podVars, syncVars, uiVars, libVars, moreVars>>

FromStr ==
    /\ lyric.pc = "text"
    /\ lyric' = LyricOf("parsed", lyric.text, from_str(lyric.text).offset,
                        sort_by_timestamp(Parsed(lyric.text).captions),
                        from_str(lyric.text).captions)
    /\ UNCHANGED <<reply, offLrc>>

MergeAdjacent ==
    /\ lyric.pc = "built"
    /\ lyric' = [lyric EXCEPT !.pc = "merged", !.before = lyric.captions,
                              !.captions = merge_adjacent(lyric.captions)]
    /\ UNCHANGED <<reply, offLrc>>

\* a Lyric the player holds: built, or built and adjusted
InUse == lyric.pc \in {"built", "adjusted"}

GetText(time) ==
    /\ InUse
    /\ reply' = ReplyOf("get_text", time, 0, get_text(Held, time).some, 0,
                        get_text(Held, time).text, <<>>, NoLyric)
    /\ UNCHANGED <<lyric, offLrc>>

GetIndex(time) ==
    /\ InUse
    /\ reply' = ReplyOf("get_index", time, 0, get_index(Held, time).some,
                        get_index(Held, time).index, <<>>, <<>>, NoLyric)
    /\ UNCHANGED <<lyric, offLrc>>

\* made keeps the Lyric as it was before the call
AdjustOffset(time, delta) ==
    /\ lyric.pc = "built"
    /\ lyric' = [lyric EXCEPT
                    !.pc = "adjusted",
                    !.before = lyric.captions,
                    !.offset = adjust_offset(Held, time, delta).offset,
                    !.captions = adjust_offset(Held, time, delta).captions]
    /\ reply' = ReplyOf("adjust_offset", time, delta,
                        get_index(Held, time).some,
                        get_index(Held, time).index, <<>>, <<>>, Held)
    /\ UNCHANGED offLrc

\* adjust_offset on a Lyric that has been adjusted before; before keeps the
\* captions as they were before the first call
AdjustOffsetAgain(time, delta) ==
    /\ lyric.pc = "adjusted"
    /\ adjusts < MaxAdjusts
    /\ adjusts' = adjusts + 1
    /\ lyric' = [lyric EXCEPT
                    !.offset = adjust_offset(Held, time, delta).offset,
                    !.captions = adjust_offset(Held, time, delta).captions]
    /\ reply' = ReplyOf("adjust_offset", time, delta,
                        get_index(Held, time).some,
                        get_index(Held, time).index, <<>>, <<>>, Held)
    /\ UNCHANGED <<podVars, syncVars, uiVars, libVars, pos, wire, handled>>

AsLrcText ==
    /\ lyric.pc \in {"parsed", "built", "adjusted"}
    /\ reply' = ReplyOf("as_lrc_text", 0, 0, TRUE, 0, <<>>, as_lrc_text(Held),
                        NoLyric)
    /\ UNCHANGED <<lyric, offLrc>>

\* from_str on the text as_lrc_text wrote
FromStrAgain ==
    /\ reply.op = "as_lrc_text"
    /\ reply' = [reply EXCEPT !.op = "from_str",
                              !.made = from_str(reply.lines)]
    /\ UNCHANGED <<lyric, offLrc>>

(***************************************************************************)
(* lib/src/library_db/mod.rs                                               *)
(***************************************************************************)
\* Path::exists() is false / metadata() fails
Absent == 0

\* the mtimes of the model, in seconds: an older and a newer one
Times == {1, 2}

\* the files of the model, relative to the root sync_database is given
Paths == {"a/x.mp3", "b/x.mp3", "a/c/y.mp3", "a/n.txt"}

\* path.file_name()
FileName(p) ==
    CASE p = "a/x.mp3" -> "x.mp3"
      [] p = "b/x.mp3" -> "x.mp3"
      [] p = "a/c/y.mp3" -> "y.mp3"
      [] p = "a/n.txt" -> "n.txt"

\* the depth walkdir gives an entry (the root has depth 0)
Depth(p) ==
    CASE p = "a/x.mp3" -> 2
      [] p = "b/x.mp3" -> 2
      [] p = "a/c/y.mp3" -> 3
      [] p = "a/n.txt" -> 2

\* filetype_supported: the extension is on the allow-list
filetype_supported(p) == p \in {"a/x.mp3", "b/x.mp3", "a/c/y.mp3"}

Unlimited == [limited |-> FALSE, limit |-> 0]
Limited(n) == [limited |-> TRUE, limit |-> n]
ScanDepths == {Unlimited, Limited(2)}

\* the entries the walker of sync_database yields and the filters admit
Admitted(p) ==
    /\ disk[p] # Absent
    /\ max_depth.limited => Depth(p) <= max_depth.limit
    /\ filetype_supported(p)

Row(p, lm) ==
    [file |-> p, name |-> FileName(p), last_modified |-> lm, last_position |-> 0]

\* insert_track: the row of a path replaces the one the table holds for it
\* (file is the key of the table)
insert_track(rows, r) == {x \in rows : x.file # r.file} \cup {r}

\* TrackDBInsertable::from_track_metadata: the mtime is read when the row is made
from_track_metadata(p) == Row(p, disk[p])

RECURSIVE InsertTracksAppend(_, _)
InsertTracksAppend(rows, ps) ==
    IF ps = {} THEN rows
    ELSE LET p == CHOOSE q \in ps : TRUE
         IN InsertTracksAppend(rows \cup {from_track_metadata(p)}, ps \ {p})

\* the loop of add_records: insert_track for every track
RECURSIVE InsertTracks(_, _)
InsertTracks(rows, ps) ==
    IF ps = {} THEN rows
    ELSE LET p == CHOOSE q \in ps : TRUE
         IN InsertTracks(insert_track(rows, from_track_metadata(p)), ps \ {p})

\* the rows need_update reads: SELECT last_modified FROM tracks WHERE name = ?
RowsNamed(n) == {r \in catalog : r.name = n}

\* need_update panics: a row has the file's name and metadata() fails
NeedUpdatePanics(p) == RowsNamed(FileName(p)) # {} /\ disk[p] = Absent

\* need_update: false when one of these rows is as new as the file
need_update(p) ==
    ~ \E r \in RowsNamed(FileName(p)) : disk[p] <= r.last_modified

NeedDeleteInverted == {r.file : r \in {x \in catalog : disk[x.file] # Absent}}

\* need_delete: the files of the rows whose path does not exist
need_delete == {r.file : r \in {x \in catalog : disk[x.file] = Absent}}

Files(rows) == {r.file : r \in rows}

Threads == DOMAIN sync

InPass(s) == sync[s].pc \in {"walk", "add", "need_delete", "delete"}

\* how a thread can end: with Ok (need_delete may have failed and been
\* logged), with the error of a transaction, or by a panic
Ended == {"done", "done_need_delete_failed", "failed_add", "failed_delete",
          "panicked"}

\* the locals of a thread that has not started, or has ended with pc
Thread(pc) ==
    [pc |-> pc, todo |-> {}, need_updates |-> {}, dels |-> {},
     before |-> {}, unparsed |-> {}, fs_changed |-> FALSE]

IdleThread == Thread("idle")

\* the thread of s ends with pc: its locals are dropped with it; the model
\* keeps what the pass deleted and whether the file system changed under it
End(s, pc) ==
    [Thread(pc) EXCEPT !.dels = sync[s].dels,
                       !.fs_changed = sync[s].fs_changed]

\* sync_database: the walker is built and the thread is spawned
SyncDatabase(s) ==
    /\ ~InPass(s)
    /\ env.passes < MaxPasses
    /\ sync' = [sync EXCEPT ![s] =
                  [IdleThread EXCEPT !.pc = "walk",
                                     !.todo = {p \in Paths : Admitted(p)},
                                     !.before = catalog]]
    /\ env' = [env EXCEPT !.passes = @ + 1]
    /\ observed' = FALSE
    /\ UNCHANGED <<disk, catalog, max_depth, offSync>>

NextPc(s, p) == IF sync[s].todo = {p} THEN "add" ELSE "walk"

\* a pass over a root without admitted files goes straight to its second half
WalkNothing(s) ==
    /\ sync[s].pc = "walk"
    /\ sync[s].todo = {}
    /\ sync' = [sync EXCEPT ![s].pc = "add"]
    /\ UNCHANGED <<disk, catalog, max_depth, env, observed, offSync>>

\* one turn of the loop of the thread: need_update, then the metadata of the
\* file is parsed. parsed: parse_metadata_from_file succeeds (it cannot on a
\* missing file)
WalkFile(s, p, parsed) ==
    /\ sync[s].pc = "walk"
    /\ p \in sync[s].todo
    /\ IF NeedUpdatePanics(p)
       THEN sync' = [sync EXCEPT ![s] = End(s, "panicked")]
       ELSE IF ~need_update(p)
       THEN sync' = [sync EXCEPT ![s].todo = @ \ {p}, ![s].pc = NextPc(s, p)]
       ELSE IF parsed /\ disk[p] # Absent
       THEN sync' = [sync EXCEPT ![s].todo = @ \ {p}, ![s].pc = NextPc(s, p),
                                 ![s].need_updates = @ \cup {p}]
       ELSE sync' = [sync EXCEPT ![s].todo = @ \ {p}, ![s].pc = NextPc(s, p),
                                 ![s].unparsed = @ \cup {p}]
    /\ UNCHANGED <<disk, catalog, max_depth, env, observed, offSync>>

\* a file removed before the walker reads its directory is not yielded
WalkVanished(s, p) ==
    /\ sync[s].pc = "walk"
    /\ p \in sync[s].todo
    /\ disk[p] = Absent
    /\ sync' = [sync EXCEPT ![s].todo = @ \ {p}, ![s].pc = NextPc(s, p)]
    /\ UNCHANGED <<disk, catalog, max_depth, env, observed, offSync>>

AddRecordsNoRollback(s, ok) ==
    /\ sync[s].pc = "add"
    /\ sync[s].need_updates = {} => ok
    /\ IF ok
       THEN /\ catalog' = InsertTracks(catalog, sync[s].need_updates)
            /\ sync' = [sync EXCEPT ![s].pc = "need_delete"]
       ELSE /\ \E part \in SUBSET sync[s].need_updates :
                  catalog' = InsertTracks(catalog, part)
            /\ sync' = [sync EXCEPT ![s] = End(s, "failed_add")]
    /\ UNCHANGED <<disk, max_depth, env, observed, offSync>>

\* add_records, when need_updates is not empty: one transaction; an error
\* drops it uncommitted and ends the thread
AddRecords(s, ok) ==
    /\ sync[s].pc = "add"
    /\ sync[s].need_updates = {} => ok
    /\ IF ok
       THEN /\ catalog' = InsertTracks(catalog, sync[s].need_updates)
            /\ sync' = [sync EXCEPT ![s].pc = "need_delete"]
       ELSE /\ catalog' = catalog
            /\ sync' = [sync EXCEPT ![s] = End(s, "failed_add")]
    /\ UNCHANGED <<disk, max_depth, env, observed, offSync>>

\* need_delete, and the match on its result: an error is logged and the
\* thread ends with Ok
NeedDelete(s, ok) ==
    /\ sync[s].pc = "need_delete"
    /\ IF ~ok
       THEN sync' = [sync EXCEPT ![s] = End(s, "done_need_delete_failed")]
       ELSE IF need_delete = {}
       THEN sync' = [sync EXCEPT ![s] = End(s, "done")]
       ELSE sync' = [sync EXCEPT ![s].pc = "delete", ![s].dels = need_delete]
    /\ UNCHANGED <<disk, catalog, max_depth, env, observed, offSync>>

DeleteRecordsPartial(s, ok) ==
    /\ sync[s].pc = "delete"
    /\ IF ok
       THEN /\ catalog' = {r \in catalog : r.file \notin sync[s].dels}
            /\ sync' = [sync EXCEPT ![s] = End(s, "done")]
       ELSE /\ \E part \in SUBSET sync[s].dels :
                  catalog' = {r \in catalog : r.file \notin part}
            /\ sync' = [sync EXCEPT ![s] = End(s, "failed_delete")]
    /\ UNCHANGED <<disk, max_depth, env, observed, offSync>>

\* delete_records: one transaction; an error drops it uncommitted and ends
\* the thread
DeleteRecords(s, ok) ==
    /\ sync[s].pc = "delete"
    /\ IF ok
       THEN /\ catalog' = {r \in catalog : r.file \notin sync[s].dels}
            /\ sync' = [sync EXCEPT ![s] = End(s, "done")]
       ELSE /\ catalog' = catalog
            /\ sync' = [sync EXCEPT ![s] = End(s, "failed_delete")]
    /\ UNCHANGED <<disk, max_depth, env, observed, offSync>>

\* get_all_records, called between two steps of a running pass: whether it
\* reads rows the pass inserted together with rows of files that were gone
\* when the pass began
GetAllRecords ==
    /\ \E s \in Threads : InPass(s)
    /\ observed' =
         /\ \E s \in Threads :
               /\ sync[s].pc \in {"need_delete", "delete"}
               /\ ~sync[s].fs_changed
               /\ sync[s].need_updates \cap Files(catalog) # {}
         /\ \E r \in catalog : disk[r.file] = Absent
    /\ UNCHANGED <<disk, catalog, max_depth, sync, env, offSync>>

\* the passes running while the file system changes
NoteFsChange == [s \in Threads |->
                   IF InPass(s) THEN [sync[s] EXCEPT !.fs_changed = TRUE]
                   ELSE sync[s]]

\* a pass runs or can still be started
RunGoesOn == env.passes < MaxPasses \/ \E s \in Threads : InPass(s)

\* a file is written (created, or modified) with mtime m
WriteFile(p, m) ==
    /\ env.fs_ops < MaxFsOps
    /\ RunGoesOn
    /\ disk[p] # m
    /\ disk' = [disk EXCEPT ![p] = m]
    /\ sync' = NoteFsChange
    /\ env' = [env EXCEPT !.fs_ops = @ + 1]
    /\ UNCHANGED <<catalog, max_depth, observed, offSync>>

\* a file is removed
RemoveFile(p) ==
    /\ env.fs_ops < MaxFsOps
    /\ RunGoesOn
    /\ disk[p] # Absent
    /\ disk' = [disk EXCEPT ![p] = Absent]
    /\ sync' = NoteFsChange
    /\ env' = [env EXCEPT !.fs_ops = @ + 1]
    /\ UNCHANGED <<catalog, max_depth, observed, offSync>>

\* the library before its first sync
SyncIdle ==
    /\ disk = [p \in Paths |-> Absent]
    /\ catalog = {}
    /\ max_depth = Unlimited
    /\ sync = <<IdleThread>>
    /\ env = [fs_ops |-> 0, passes |-> 0]
    /\ observed = FALSE

(***************************************************************************)
(* lib/src/library_db/mod.rs: get_last_position, set_last_position         *)
(***************************************************************************)
\* a Track that is not a music file (a podcast episode, a radio station):
\* as_track() is None
NotMusic == "radio"

Tracks == Paths \cup {NotMusic}

\* Duration::as_secs of a duration given in milliseconds
as_secs(d) == d \div 1000

\* the positions the player stores, in milliseconds
Positions == {0, 1500, 2999}

\* the rows of WHERE name = ?: the parameter is track.path(), the whole path
RowsOfTrack(rows, track) == {r \in rows : r.name = track}

\* UPDATE tracks SET last_position = ?1 WHERE name = ?2
set_last_position(rows, track, d) ==
    {IF r \in RowsOfTrack(rows, track)
     THEN [r EXCEPT !.last_position = as_secs(d)]
     ELSE r : r \in rows}

\* SELECT last_position FROM tracks WHERE name = ?1, read by query_row: an
\* error (QueryReturnedNoRows) when no row matches
get_last_position(rows, track) ==
    IF RowsOfTrack(rows, track) = {}
    THEN [ok |-> FALSE, secs |-> 0]
    ELSE [ok |-> TRUE,
          secs |-> (CHOOSE r \in RowsOfTrack(rows, track) : TRUE).last_position]

PosOf(pc, track, d, ok, before, found, secs) ==
    [pc |-> pc, track |-> track, d |-> d, ok |-> ok, before |-> before,
     found |-> found, secs |-> secs]

PosIdle == pos = PosOf("idle", NotMusic, 0, FALSE, {}, FALSE, 0)

offMore == <<podVars, uiVars, lrcVars, libVars, adjusts, wire, handled>>

\* set_last_position(track, d); executed is false when conn.execute fails
SetLastPosition(track, d, executed) ==
    /\ pos.pc \in {"idle", "got"}
    /\ pos' = PosOf("set", track, d, track # NotMusic /\ executed, catalog,
                    FALSE, 0)
    /\ catalog' = IF track # NotMusic /\ executed
                  THEN set_last_position(catalog, track, d)
                  ELSE catalog
    /\ UNCHANGED <<disk, max_depth, sync, env, observed, offMore>>

\* get_last_position of the track the position was set for
GetLastPosition ==
    /\ pos.pc = "set"
    /\ pos' = [pos EXCEPT
                  !.pc = "got",
                  !.found = /\ pos.track # NotMusic
                            /\ get_last_position(catalog, pos.track).ok,
                  !.secs = IF pos.track # NotMusic
                           THEN get_last_position(catalog, pos.track).secs
                           ELSE 0]
    /\ UNCHANGED <<syncVars, offMore>>

(***************************************************************************)
(* lib/src/podcast/mod.rs                                                  *)
(***************************************************************************)
\* PodcastFeed.id = None
NoId == 0
FeedIds == {NoId, 1}
Episodes == {1, 2}
\* the pool sizes tried (concurrent_downloads_max is non-zero)
PoolSizes == {1, 2}

\* usize arithmetic wraps modulo 2^64 when overflow checks are off; the model
\* keeps a 16 bit word, which is as far above MaxRequests as 2^64 is
UsizeModulus == 2 ^ 16

\* max_retries -= 1
SubOne(m) == (m - 1) % UsizeModulus

\* the subtraction overflows exactly on 0
SubOverflows(m) == m < 1

Msg(t, type, id, path) == [task |-> t, type |-> type, id |-> id, path |-> path]

SendWaitsForReceiver(m) ==
    /\ rx.open
    /\ chan' = [chan EXCEPT ![m.task] = Append(@, m)]

\* tx_to_main.send(..): never waits; Err when the receiver is closed, and the
\* callers drop the result (`let _ =`)
Send(m) ==
    chan' = IF rx.open THEN [chan EXCEPT ![m.task] = Append(@, m)] ELSE chan

Running == {t \in DOMAIN tasks : tasks[t].pc \in {"fetch", "body"}}

PoolAdmitsAll == TRUE

\* the pool runs at most concurrent_downloads_max futures at a time
PoolHasRoom == Cardinality(Running) < concurrent_downloads_max

NewTask(kind, id, retries, call) ==
    [kind |-> kind, id |-> id, pc |-> "queued", max_retries |-> retries,
     requests |-> 0, path |-> FALSE,
     http |-> "none", outcome |-> "none", call |-> call]

\* a future ends (it returns, or a panic unwinds it): its locals are dropped
\* with it; the model keeps what it ended with
Conclude(t, pc, outcome) ==
    [tasks EXCEPT ![t] = [kind |-> @.kind, id |-> @.id, pc |-> pc,
                          max_retries |-> 0, requests |-> 0, path |-> @.path,
                          http |-> @.http, outcome |-> outcome,
                          call |-> @.call]]

\* check_feed: hands one future to the pool
CheckFeed(id, retries) ==
    /\ Len(tasks) < MaxTasks
    /\ tasks' = Append(tasks, NewTask("feed", id, retries, Len(calls) + 1))
    /\ calls' = Append(calls, [kind |-> "feed", eps |-> <<id>>])
    /\ chan' = Append(chan, <<>>)
    /\ UNCHANGED <<config, offPod>>

\* the future of check_feed up to the first await: FetchPodcastStart, then the
\* first request of get_feed_data
FeedStart(t) ==
    /\ tasks[t].kind = "feed"
    /\ tasks[t].pc = "queued"
    /\ PoolHasRoom
    /\ Send(Msg(t, "FetchPodcastStart", tasks[t].id, FALSE))
    /\ tasks' = [tasks EXCEPT ![t].pc = "fetch", ![t].requests = 1]
    /\ UNCHANGED <<calls, config, offPod>>

FeedResponseCountsRetries(t, ok, overflow_checks) ==
    /\ tasks[t].kind = "feed"
    /\ tasks[t].pc = "fetch"
    /\ IF ok
       THEN /\ tasks' = [tasks EXCEPT ![t].pc = "body"]
            /\ UNCHANGED chan
       ELSE IF tasks[t].max_retries = 0
       THEN /\ tasks' = Conclude(t, "done", "fetch_failed")
            /\ Send(Msg(t, "Error", tasks[t].id, FALSE))
       ELSE /\ tasks[t].requests < MaxRequests
            /\ tasks' = [tasks EXCEPT ![t].max_retries = SubOne(@),
                                      ![t].requests = @ + 1]
            /\ UNCHANGED chan
    /\ UNCHANGED <<calls, config, offPod>>

\* the loop of get_feed_data, one turn: the request's answer arrives
FeedResponse(t, ok, overflow_checks) ==
    /\ tasks[t].kind = "feed"
    /\ tasks[t].pc = "fetch"
    /\ IF ok
       THEN /\ tasks' = [tasks EXCEPT ![t].pc = "body"]
            /\ UNCHANGED chan
       ELSE IF SubOverflows(tasks[t].max_retries) /\ overflow_checks
       THEN /\ tasks' = Conclude(t, "panicked", "fetch_failed")
            /\ UNCHANGED chan
       ELSE IF SubOne(tasks[t].max_retries) = 0
       THEN /\ tasks' = Conclude(t, "done", "fetch_failed")
            /\ Send(Msg(t, "Error", tasks[t].id, FALSE))
       ELSE /\ tasks[t].requests < MaxRequests
            /\ tasks' = [tasks EXCEPT ![t].max_retries = SubOne(@),
                                      ![t].requests = @ + 1]
            /\ UNCHANGED chan
    /\ UNCHANGED <<calls, config, offPod>>

FeedBodyAlwaysNew(t, ok) ==
    /\ tasks[t].kind = "feed"
    /\ tasks[t].pc = "body"
    /\ LET type == IF ~ok THEN "Error" ELSE "NewData"
       IN /\ Send(Msg(t, type, tasks[t].id, FALSE))
          /\ tasks' = Conclude(t, "done", IF ok THEN "ok" ELSE "parse_failed")
    /\ UNCHANGED <<calls, config, offPod>>

\* the rest of get_feed_data and of the future: the body is read and parsed,
\* and the terminal event is sent
FeedBody(t, ok) ==
    /\ tasks[t].kind = "feed"
    /\ tasks[t].pc = "body"
    /\ LET type == IF ~ok THEN "Error"
                   ELSE IF tasks[t].id = NoId THEN "NewData" ELSE "SyncData"
       IN /\ Send(Msg(t, type, tasks[t].id, FALSE))
          /\ tasks' = Conclude(t, "done", IF ok THEN "ok" ELSE "parse_failed")
    /\ UNCHANGED <<calls, config, offPod>>

\* the episode lists a caller passes: distinct episodes, in any order
EpLists == {<<1>>, <<1, 2>>, <<2, 1>>}

RECURSIVE NewDlTasks(_, _, _)
NewDlTasks(eps, retries, call) ==
    IF eps = <<>> THEN <<>>
    ELSE <<NewTask("dl", Head(eps), retries, call)>>
             \o NewDlTasks(Tail(eps), retries, call)

\* download_list: one future per episode, in the order of the list
DownloadList(eps, retries) ==
    /\ Len(tasks) + Len(eps) <= MaxTasks
    /\ tasks' = tasks \o NewDlTasks(eps, retries, Len(calls) + 1)
    /\ calls' = Append(calls, [kind |-> "dl", eps |-> eps])
    /\ chan' = chan \o [i \in 1..Len(eps) |-> <<>>]
    /\ UNCHANGED <<config, offPod>>

\* the future of download_list up to the first await: DLStart, then the first
\* request of download_file
DlStart(t) ==
    /\ tasks[t].kind = "dl"
    /\ tasks[t].pc = "queued"
    /\ PoolHasRoom
    /\ Send(Msg(t, "DLStart", tasks[t].id, FALSE))
    /\ tasks' = [tasks EXCEPT ![t].pc = "fetch", ![t].requests = 1]
    /\ UNCHANGED <<calls, config, offPod>>

HttpStatus == {"2xx", "4xx"}

\* download_file from the answer of a request to the next await: the retry
\* loop, the file name, File::create
DlResponse(t, ok, status, created, overflow_checks) ==
    /\ tasks[t].kind = "dl"
    /\ tasks[t].pc = "fetch"
    /\ IF ok
       THEN IF created
            THEN /\ tasks' = [tasks EXCEPT ![t].pc = "body", ![t].path = TRUE,
                                           ![t].http = status]
                 /\ UNCHANGED chan
            ELSE /\ tasks' = [Conclude(t, "done", "create_failed")
                                 EXCEPT ![t].http = status]
                 /\ Send(Msg(t, "DLFileCreateError", tasks[t].id, FALSE))
       ELSE IF SubOverflows(tasks[t].max_retries) /\ overflow_checks
       THEN /\ tasks' = Conclude(t, "panicked", "fetch_failed")
            /\ UNCHANGED chan
       ELSE IF SubOne(tasks[t].max_retries) = 0
       THEN /\ tasks' = Conclude(t, "done", "fetch_failed")
            /\ Send(Msg(t, "DLResponseError", tasks[t].id, FALSE))
       ELSE /\ tasks[t].requests < MaxRequests
            /\ tasks' = [tasks EXCEPT ![t].max_retries = SubOne(@),
                                      ![t].requests = @ + 1]
            /\ UNCHANGED chan
    /\ UNCHANGED <<calls, config, offPod>>

DlBodyCompleteUnwritten(t, gotBytes, written) ==
    /\ tasks[t].kind = "dl"
    /\ tasks[t].pc = "body"
    /\ LET type == IF ~gotBytes THEN "DLFileCreateError" ELSE "DLComplete"
       IN /\ Send(Msg(t, type, tasks[t].id, tasks[t].path))
          /\ tasks' = Conclude(t, "done", IF ~gotBytes THEN "bytes_failed"
                                           ELSE IF written THEN "ok"
                                           ELSE "write_failed")
    /\ UNCHANGED <<calls, config, offPod>>

\* the rest of download_file and of the future: the body arrives, is copied to
\* the file, and the result is sent
DlBody(t, gotBytes, written) ==
    /\ tasks[t].kind = "dl"
    /\ tasks[t].pc = "body"
    /\ LET type == IF ~gotBytes THEN "DLFileCreateError"
                   ELSE IF written THEN "DLComplete" ELSE "DLFileWriteError"
       IN /\ Send(Msg(t, type, tasks[t].id, tasks[t].path))
          /\ tasks' = Conclude(t, "done", IF ~gotBytes THEN "bytes_failed"
                                           ELSE IF written THEN "ok"
                                           ELSE "write_failed")
    /\ UNCHANGED <<calls, config, offPod>>

(***************************************************************************)
(* lib/src/podcast/mod.rs: duration_to_int                                 *)
(***************************************************************************)
None == [some |-> FALSE, v |-> ""]

Some(x) == [some |-> TRUE, v |-> x]

\* i32::MAX
I32Max == 2147483647

\* half a 32-bit word, for sums and products that wrap at 2^32
Half == 65536

\* a piece of a duration string: a run of digits (with its value when
\* str::parse::<i32> accepts it), a colon, or another character
Piece(k, v, fits) == [k |-> k, v |-> v, fits |-> fits]

\* the runs of digits tried: small ones, one whose hours pass i32::MAX
\* seconds, and one too long for an i32
Runs ==
    {Piece("num", v, TRUE) : v \in {2, 3, 45, 600000}}
    \cup {Piece("num", 0, FALSE)}

DurPieces ==
    Runs \cup {Piece(":", 0, TRUE), Piece("x", 0, TRUE)}

\* two runs of digits side by side are one run
IsString(ps) ==
    \A i \in 1..(Len(ps) - 1) : ~(ps[i].k = "num" /\ ps[i + 1].k = "num")

\* RE_DURATION.captures: the groups of the leftmost match of
\* (\d+)(?::(\d+))?(?::(\d+))?, as positions in the string; <<>> for no match
Captures(ps) ==
    LET nums == {i \in DOMAIN ps : ps[i].k = "num"}
        follows(p) == /\ p + 2 \in DOMAIN ps
                      /\ ps[p + 1].k = ":"
                      /\ ps[p + 2].k = "num"
    IN  IF nums = {}
        THEN <<>>
        ELSE LET p == CHOOSE i \in nums : \A j \in nums : i <= j
             IN  IF ~follows(p)
                 THEN <<p>>
                 ELSE IF ~follows(p + 2)
                      THEN <<p, p + 2>>
                      ELSE <<p, p + 2, p + 4>>

\* a 32-bit word as two halves, and the sums and products that wrap
Word(n) == [hi |-> n \div Half, lo |-> n % Half]

WrappingMul(a, k) ==
    [hi |-> (a.hi * k + (a.lo * k) \div Half) % Half, lo |-> (a.lo * k) % Half]

WrappingAdd(a, b) ==
    [hi |-> (a.hi + b.hi + (a.lo + b.lo) \div Half) % Half,
     lo |-> (a.lo + b.lo) % Half]

AsI32(a) ==
    IF a.hi >= Half \div 2
    THEN (a.hi - Half) * Half + a.lo
    ELSE a.hi * Half + a.lo

\* h * 60 * 60 + m * 60 + s passes i32::MAX (all three are >= 0, so some
\* step of it overflows exactly then)
Overflows(h, m, s) ==
    \/ h > I32Max \div 3600
    \/ m > I32Max \div 60
    \/ h * 3600 > I32Max - m * 60
    \/ h * 3600 + m * 60 > I32Max - s

\* the sum as an i32 computes it when overflow is not checked
WrappedSeconds(h, m, s) ==
    AsI32(WrappingAdd(WrappingAdd(WrappingMul(WrappingMul(Word(h), 60), 60),
                                  WrappingMul(Word(m), 60)),
                      Word(s)))

Returned32(v) == [pc |-> "returned", some |-> TRUE, v |-> v]

ReturnedNone == [pc |-> "returned", some |-> FALSE, v |-> 0]

\* duration_to_int; overflow_checks: the build panics on an overflow
\* (debug) or wraps (release)
duration_to_int(duration, overflow_checks) ==
    IF ~duration.some
    THEN ReturnedNone
    ELSE LET ps == duration.v
             groups == Captures(ps)
             counter == Len(groups)
             times == [i \in 1..3 |-> IF i <= counter THEN ps[groups[i]].v ELSE 0]
         IN  IF groups = <<>>
             THEN ReturnedNone
             ELSE IF \E i \in DOMAIN groups : ~ps[groups[i]].fits
                  THEN ReturnedNone
                  ELSE LET h == IF counter = 3 THEN times[1] ELSE 0
                           m == IF counter = 3 THEN times[2]
                                ELSE IF counter = 2 THEN times[1] ELSE 0
                           s == times[counter]
                       IN  IF Overflows(h, m, s)
                           THEN IF overflow_checks
                                THEN [pc |-> "panicked", some |-> FALSE,
                                      v |-> 0]
                                ELSE Returned32(WrappedSeconds(h, m, s))
                           ELSE Returned32(h * 3600 + m * 60 + s)

\* dur: the argument (an Option of a string) and what the call came to
DurIdle == dur = [pc |-> "idle", duration |-> None, some |-> FALSE, v |-> 0]

(***************************************************************************)
(* lib/src/podcast/mod.rs: export_opml_feeds, import_opml_feeds            *)
(***************************************************************************)
\* a podcast as export_opml_feeds reads it
Titled(url, title) == [url |-> url, title |-> title]

Titles == {"", "t1", "t2"}

\* <outline text=.. title=.. xmlUrl=..> with the outlines inside it
Outline(text, title, xml_url, outlines) ==
    [text |-> text, title |-> title, xml_url |-> xml_url, outlines |-> outlines]

PodcastFeed(id, url, title) == [id |-> id, url |-> url, title |-> title]

\* the document and OPML::from_str's answer: the opml crate rejects a body
\* without outlines
ToXml(body) == [version |-> "2.0", body |-> body]

OpmlFromStr(xml) ==
    IF xml.body = <<>>
    THEN [ok |-> FALSE, body |-> <<>>]
    ELSE [ok |-> TRUE, body |-> xml.body]

\* export_opml_feeds and opml.to_string()
export_opml_feeds(podcasts) ==
    ToXml([i \in DOMAIN podcasts |->
              Outline(podcasts[i].title, Some(podcasts[i].title),
                      Some(podcasts[i].url), <<>>)])

\* the loop of import_opml_feeds over opml.body.outlines from the i-th on
RECURSIVE FeedsFrom(_, _)
FeedsFrom(outlines, i) ==
    IF i > Len(outlines)
    THEN <<>>
    ELSE LET pod == outlines[i]
             title == IF pod.title.some /\ pod.title.v # ""
                      THEN pod.title
                      ELSE IF pod.text = "" THEN None ELSE Some(pod.text)
         IN  (IF pod.xml_url.some
              THEN <<PodcastFeed(NoId, pod.xml_url.v, title)>>
              ELSE <<>>)
             \o FeedsFrom(outlines, i + 1)

import_opml_feeds(xml) ==
    IF OpmlFromStr(xml).ok
    THEN [ok |-> TRUE, feeds |-> FeedsFrom(OpmlFromStr(xml).body, 1)]
    ELSE [ok |-> FALSE, feeds |-> <<>>]

OpmlOf(pc, podcasts, xml, ok, feeds) ==
    [pc |-> pc, podcasts |-> podcasts, xml |-> xml, ok |-> ok, feeds |-> feeds]

OpmlIdle == opml = OpmlOf("idle", <<>>, ToXml(<<>>), FALSE, <<>>)

LibIdle == DurIdle /\ OpmlIdle

offLib == <<podVars, syncVars, uiVars, lrcVars, moreVars>>

DurationToInt(overflow_checks) ==
    /\ dur.pc = "called"
    /\ dur' = [pc |-> duration_to_int(dur.duration, overflow_checks).pc,
               duration |-> dur.duration,
               some |-> duration_to_int(dur.duration, overflow_checks).some,
               v |-> duration_to_int(dur.duration, overflow_checks).v]
    /\ UNCHANGED <<opml, offLib>>

ExportOpmlFeeds ==
    /\ opml.pc = "podcasts"
    /\ opml' = [opml EXCEPT !.pc = "exported",
                            !.xml = export_opml_feeds(opml.podcasts)]
    /\ UNCHANGED <<dur, offLib>>

ImportOpmlFeeds ==
    /\ opml.pc \in {"exported", "document"}
    /\ opml' = [opml EXCEPT
                   !.pc = IF opml.pc = "exported" THEN "reimported"
                          ELSE "imported",
                   !.ok = import_opml_feeds(opml.xml).ok,
                   !.feeds = import_opml_feeds(opml.xml).feeds]
    /\ UNCHANGED <<dur, offLib>>

(***************************************************************************)
(* lib/src/player.rs: UpdateEvents and the protobuf messages made of them  *)
(***************************************************************************)
\* u16::MAX
U16Max == 65535

\* nanoseconds in a second (std::time::Duration)
NanosPerSec == 1000000000

\* Result: Ok(v), or Err with the place unwrap_msg names
Ok(v) == [ok |-> TRUE, v |-> v]

Err(place) == [ok |-> FALSE, v |-> place]

\* unwrap_msg: Ok of the value of a Some, Err for None
unwrap_msg(opt, place) == IF opt.some THEN Ok(opt.v) ELSE Err(place)

ClampU16Truncates(val) == val % (U16Max + 1)

\* clamp_u16: val.min(u16::MAX) as u16
clamp_u16(val) == IF val < U16Max THEN val ELSE U16Max

\* std::time::Duration::new(secs, nanos): whole seconds of nanos are carried
DurationNew(secs, nanos) ==
    [secs |-> secs + nanos \div NanosPerSec, nanos |-> nanos % NanosPerSec]

\* From<std::time::Duration> for protobuf::Duration: as_secs, subsec_nanos
ProtoDuration(value) == [secs |-> value.secs, nanos |-> value.nanos]

\* From<protobuf::Duration> for std::time::Duration
StdDuration(value) == DurationNew(value.secs, value.nanos)

\* From<PlayerProgress> for protobuf::PlayerTime
PlayerTime(value) ==
    [position |-> IF value.position.some
                  THEN Some(ProtoDuration(value.position.v)) ELSE None,
     total_duration |-> IF value.total_duration.some
                        THEN Some(ProtoDuration(value.total_duration.v))
                        ELSE None]

\* From<protobuf::PlayerTime> for PlayerProgress
PlayerProgress(value) ==
    [position |-> IF value.position.some
                  THEN Some(StdDuration(value.position.v)) ELSE None,
     total_duration |-> IF value.total_duration.some
                        THEN Some(StdDuration(value.total_duration.v))
                        ELSE None]

\* From<PlayerProgress> for protobuf::UpdateProgress
UpdateProgress(value) == [progress |-> Some(PlayerTime(value))]

\* TryFrom<protobuf::UpdateProgress> for PlayerProgress
PlayerProgressTryFrom(value) ==
    IF value.progress.some
    THEN Ok(PlayerProgress(value.progress.v))
    ELSE Err("UpdateProgress.progress")

\* From<PlaylistTrackSource> for protobuf::TrackId
TrackId(value) == [source |-> Some([kind |-> value.kind, v |-> value.v])]

\* TryFrom<protobuf::track_id::Source> for PlaylistTrackSource
PlaylistTrackSource(source) == Ok([kind |-> source.kind, v |-> source.v])

\* unwrap_msg(unwrap_msg(ev.id, ..)?.source, ..)?.try_into()?
TrackIdOf(id, place) ==
    IF ~id.some THEN Err(place)
    ELSE IF ~id.v.source.some THEN Err("id.source")
    ELSE PlaylistTrackSource(id.v.source.v)

\* From<UpdatePlaylistEvents> for protobuf::UpdatePlaylist
UpdatePlaylist(value) ==
    [type |-> Some(
        CASE value.kind = "PlaylistAddTrack" ->
               [kind |-> "AddTrack", at_index |-> value.at_index,
                optional_title |-> value.title,
                duration |-> Some(ProtoDuration(value.duration)),
                id |-> Some(TrackId(value.trackid))]
          [] value.kind = "PlaylistRemoveTrack" ->
               [kind |-> "RemoveTrack", at_index |-> value.at_index,
                id |-> Some(TrackId(value.trackid))]
          [] value.kind = "PlaylistCleared" -> [kind |-> "Cleared"]
          [] value.kind = "PlaylistLoopMode" ->
               [kind |-> "LoopMode", mode |-> value.mode]
          [] value.kind = "PlaylistSwapTracks" ->
               [kind |-> "SwapTracks", index_a |-> value.index_a,
                index_b |-> value.index_b]
          [] value.kind = "PlaylistShuffled" ->
               [kind |-> "Shuffled", shuffled |-> Some(value.tracks)])]

\* TryFrom<protobuf::UpdatePlaylist> for UpdatePlaylistEvents
UpdatePlaylistEvents(value) ==
    IF ~value.type.some THEN Err("UpdatePlaylist.type")
    ELSE LET ev == value.type.v
         IN CASE ev.kind = "AddTrack" ->
                   IF ~ev.duration.some THEN Err("add_track.duration")
                   ELSE IF ~TrackIdOf(ev.id, "add_track.id").ok
                   THEN TrackIdOf(ev.id, "add_track.id")
                   ELSE Ok([kind |-> "PlaylistAddTrack",
                            at_index |-> ev.at_index,
                            title |-> ev.optional_title,
                            duration |-> StdDuration(ev.duration.v),
                            trackid |-> TrackIdOf(ev.id, "add_track.id").v])
              [] ev.kind = "RemoveTrack" ->
                   IF ~TrackIdOf(ev.id, "remove_track.id").ok
                   THEN TrackIdOf(ev.id, "remove_track.id")
                   ELSE Ok([kind |-> "PlaylistRemoveTrack",
                            at_index |-> ev.at_index,
                            trackid |-> TrackIdOf(ev.id, "remove_track.id").v])
              [] ev.kind = "Cleared" -> Ok([kind |-> "PlaylistCleared"])
              [] ev.kind = "LoopMode" ->
                   Ok([kind |-> "PlaylistLoopMode", mode |-> ev.mode])
              [] ev.kind = "SwapTracks" ->
                   Ok([kind |-> "PlaylistSwapTracks", index_a |-> ev.index_a,
                       index_b |-> ev.index_b])
              [] ev.kind = "Shuffled" ->
                   IF ~ev.shuffled.some THEN Err("shuffled.shuffled")
                   ELSE Ok([kind |-> "PlaylistShuffled",
                            tracks |-> ev.shuffled.v])

\* From<UpdateEvents> for protobuf::StreamUpdates
StreamUpdates(value) ==
    [type |-> Some(
        CASE value.kind = "MissedEvents" ->
               [kind |-> "MissedEvents", amount |-> value.amount]
          [] value.kind = "VolumeChanged" ->
               [kind |-> "VolumeChanged",
                msg |-> Some([volume |-> value.volume])]
          [] value.kind = "SpeedChanged" ->
               [kind |-> "SpeedChanged", msg |-> Some([speed |-> value.speed])]
          [] value.kind = "PlayStateChanged" ->
               [kind |-> "PlayStateChanged",
                msg |-> Some([status |-> value.playing])]
          [] value.kind = "TrackChanged" ->
               [kind |-> "TrackChanged",
                current_track_index |-> value.current_track_index,
                current_track_updated |-> value.current_track_updated,
                optional_title |-> value.title,
                progress |-> IF value.progress.some
                             THEN Some(PlayerTime(value.progress.v)) ELSE None]
          [] value.kind = "GaplessChanged" ->
               [kind |-> "GaplessChanged",
                msg |-> Some([gapless |-> value.gapless])]
          [] value.kind = "PlaylistChanged" ->
               [kind |-> "PlaylistChanged", ev |-> UpdatePlaylist(value.ev)]
          [] value.kind = "Progress" ->
               [kind |-> "ProgressChanged", ev |-> UpdateProgress(value.ev)])]

\* TryFrom<protobuf::StreamUpdates> for UpdateEvents
UpdateEvents(value) ==
    IF ~value.type.some THEN Err("StreamUpdates.type")
    ELSE LET ev == value.type.v
         IN CASE ev.kind = "VolumeChanged" ->
                   IF ~ev.msg.some THEN Err("volume_changed.msg")
                   ELSE Ok([kind |-> "VolumeChanged",
                            volume |-> clamp_u16(ev.msg.v.volume)])
              [] ev.kind = "SpeedChanged" ->
                   IF ~ev.msg.some THEN Err("speed_changed.msg")
                   ELSE Ok([kind |-> "SpeedChanged", speed |-> ev.msg.v.speed])
              [] ev.kind = "PlayStateChanged" ->
                   IF ~ev.msg.some THEN Err("play_state_changed.msg")
                   ELSE Ok([kind |-> "PlayStateChanged",
                            playing |-> ev.msg.v.status])
              [] ev.kind = "MissedEvents" ->
                   Ok([kind |-> "MissedEvents", amount |-> ev.amount])
              [] ev.kind = "TrackChanged" ->
                   Ok([kind |-> "TrackChanged",
                       current_track_index |-> ev.current_track_index,
                       current_track_updated |-> ev.current_track_updated,
                       title |-> ev.optional_title,
                       progress |-> IF ev.progress.some
                                    THEN Some(PlayerProgress(ev.progress.v))
                                    ELSE None])
              [] ev.kind = "GaplessChanged" ->
                   IF ~ev.msg.some THEN Err("gapless_changed.msg")
                   ELSE Ok([kind |-> "GaplessChanged",
                            gapless |-> ev.msg.v.gapless])
              [] ev.kind = "PlaylistChanged" ->
                   IF ~UpdatePlaylistEvents(ev.ev).ok
                   THEN UpdatePlaylistEvents(ev.ev)
                   ELSE Ok([kind |-> "PlaylistChanged",
                            ev |-> UpdatePlaylistEvents(ev.ev).v])
              [] ev.kind = "ProgressChanged" ->
                   IF ~PlayerProgressTryFrom(ev.ev).ok
                   THEN PlayerProgressTryFrom(ev.ev)
                   ELSE Ok([kind |-> "Progress",
                            ev |-> PlayerProgressTryFrom(ev.ev).v])

\* the values tried for the u64 fields
U64s == {0, 7}

StdDurations == {[secs |-> x, nanos |-> n] : x \in {0, 90}, n \in {0, NanosPerSec - 1}}

OptDurations == {None} \cup {Some(d) : d \in StdDurations}

Progresses ==
    {[position |-> p, total_duration |-> t] : p \in OptDurations, t \in OptDurations}

OptTitles == {None, Some("t")}

\* PlaylistTrackSource: Path, Url, PodcastUrl
Sources == {[kind |-> k, v |-> "x"] : k \in {"Path", "Url", "PodcastUrl"}}

\* every variant of UpdatePlaylistEvents
PlaylistEvents ==
    {[kind |-> "PlaylistAddTrack", at_index |-> i, title |-> t, duration |-> d,
      trackid |-> src] :
        i \in U64s, t \in OptTitles, d \in StdDurations, src \in Sources}
    \cup {[kind |-> "PlaylistRemoveTrack", at_index |-> i, trackid |-> src] :
            i \in U64s, src \in Sources}
    \cup {[kind |-> "PlaylistCleared"]}
    \cup {[kind |-> "PlaylistLoopMode", mode |-> m] : m \in 0..2}
    \cup {[kind |-> "PlaylistSwapTracks", index_a |-> a, index_b |-> b] :
            a \in U64s, b \in U64s}
    \cup {[kind |-> "PlaylistShuffled", tracks |-> t] : t \in {"none", "two"}}

\* every variant of UpdateEvents
Events ==
    {[kind |-> "MissedEvents", amount |-> a] : a \in U64s}
    \cup {[kind |-> "VolumeChanged", volume |-> v] : v \in {0, 100, U16Max}}
    \cup {[kind |-> "SpeedChanged", speed |-> v] : v \in {-5, 10}}
    \cup {[kind |-> "PlayStateChanged", playing |-> v] : v \in 0..2}
    \cup {[kind |-> "TrackChanged", current_track_index |-> i,
           current_track_updated |-> u, title |-> t, progress |-> p] :
            i \in U64s, u \in BOOLEAN, t \in OptTitles,
            p \in {None} \cup {Some(x) : x \in Progresses}}
    \cup {[kind |-> "GaplessChanged", gapless |-> g] : g \in BOOLEAN}
    \cup {[kind |-> "PlaylistChanged", ev |-> e] : e \in PlaylistEvents}
    \cup {[kind |-> "Progress", ev |-> p] : p \in Progresses}

\* an UpdatePlaylist message that lacks its variant or a required message
LackingPlaylists ==
    {[type |-> None]}
    \cup {[type |-> Some([kind |-> "AddTrack", at_index |-> 0,
                          optional_title |-> None, duration |-> d, id |-> id])] :
            d \in {None}, id \in {Some(TrackId(src)) : src \in Sources}}
    \cup {[type |-> Some([kind |-> "AddTrack", at_index |-> 0,
                          optional_title |-> None,
                          duration |-> Some([secs |-> 0, nanos |-> 0]),
                          id |-> id])] :
            id \in {None, Some([source |-> None])}}
    \cup {[type |-> Some([kind |-> "RemoveTrack", at_index |-> 0, id |-> id])] :
            id \in {None, Some([source |-> None])}}
    \cup {[type |-> Some([kind |-> "Shuffled", shuffled |-> None])]}

\* a StreamUpdates message that lacks its variant or a required message
LackingMessages ==
    {[type |-> None]}
    \cup {[type |-> Some([kind |-> k, msg |-> None])] :
            k \in {"VolumeChanged", "SpeedChanged", "PlayStateChanged",
                   "GaplessChanged"}}
    \cup {[type |-> Some([kind |-> "PlaylistChanged", ev |-> e])] :
            e \in LackingPlaylists}
    \cup {[type |-> Some([kind |-> "ProgressChanged",
                          ev |-> [progress |-> None]])]}

\* a volume (u32 on the wire) above u16::MAX
LoudMessages ==
    {[type |-> Some([kind |-> "VolumeChanged", msg |-> Some([volume |-> v])])] :
        v \in {U16Max + 1, 70000}}

NoEvent == [kind |-> "none"]

\* origin: "encoded" for a message made of an event, "lacking" and "loud"
\* for messages of the peer
WireOf(pc, origin, event, msg, result) ==
    [pc |-> pc, origin |-> origin, event |-> event, msg |-> msg,
     result |-> result]

WireIdle == wire = WireOf("idle", "none", NoEvent, [type |-> None], Err("none"))

\* what is kept of a call of a podcast handler: its name, whether it returned
\* Ok, and podcasts_index as it was when the call began
Call(op, ok, before) == [op |-> op, ok |-> ok, before |-> before]

NoCall == Call("none", TRUE, 0)

MoreIdle == PosIdle /\ adjusts = 0 /\ WireIdle /\ handled = NoCall

\* the server makes the message of an event
Encode ==
    /\ wire.pc = "event"
    /\ wire' = [wire EXCEPT !.pc = "message", !.msg = StreamUpdates(wire.event)]
    /\ UNCHANGED <<podVars, syncVars, uiVars, lrcVars, libVars, pos, adjusts,
                   handled>>

\* the client decodes a message
Decode ==
    /\ wire.pc = "message"
    /\ wire' = [wire EXCEPT !.pc = "decoded", !.result = UpdateEvents(wire.msg)]
    /\ UNCHANGED <<podVars, syncVars, uiVars, lrcVars, libVars, pos, adjusts,
                   handled>>

(***************************************************************************)
(* lib/src/podcast/mod.rs: import_from_opml, and the receiving half of the *)
(* channel                                                                 *)
(***************************************************************************)
\* the feed URLs of the model
Urls == {"u1", "u2"}

\* unbounded_channel(): the receiver is open and has taken nothing
RxOpen == [open |-> TRUE, read |-> [t \in 1..MaxTasks |-> 0]]

\* the message recv() hands out next from producer t
NextMsg(t) == chan[t][rx.read[t] + 1]

\* recv() takes the next message of producer t
Taken(t) == [rx EXCEPT !.read[t] = @ + 1]

Podcast(id, url) == [id |-> id, url |-> url]

DbUrls(pods) == {p.url : p \in pods}

\* the id the database gives the next row: one more than the greatest
RowId(ids) == IF ids = {} THEN 1 ELSE (CHOOSE i \in ids : \A k \in ids : k <= i) + 1

\* the id the database gives the next podcast
NextId(pods) == RowId({p.id : p \in pods})

\* Database::insert_podcast: a new row with a new id
insert_podcast(pods, url) == pods \cup {Podcast(NextId(pods), url)}

\* the catalogs an import can meet: any of the URLs subscribed before
OldCatalogs ==
    {{}, {Podcast(1, "u1")}, {Podcast(1, "u2")},
     {Podcast(1, "u1"), Podcast(2, "u2")}}

\* the feed lists an OPML file can hold
RECURSIVE UrlLists(_)
UrlLists(n) ==
    IF n = 0 THEN {<<>>}
    ELSE UrlLists(n - 1) \cup
         {Append(l, u) : l \in {x \in UrlLists(n - 1) : Len(x) = n - 1},
                         u \in Urls}

\* podcast_list.retain(..): the feeds whose URL no old podcast has
Retained(list, pods) == SelectSeq(list, LAMBDA u : u \notin DbUrls(pods))

ImpIdle ==
    [pc |-> "idle", opml |-> <<>>, old |-> {}, feeds |-> <<>>, pool |-> FALSE,
     msg_counter |-> 0, failure |-> FALSE, handed |-> {}, inserted |-> {},
     result |-> "none"]

\* how import_from_opml returns
Returned(i, result) == [i EXCEPT !.pc = "returned", !.result = result]

ImportFromOpmlNoRetain(list, opened) ==
    /\ imp.pc = "idle"
    /\ tasks = <<>>
    /\ Len(list) <= MaxTasks
    /\ LET feeds == list
           called == [imp EXCEPT !.opml = list, !.old = DbUrls(db)]
       IN IF list = <<>> THEN
              /\ imp' = Returned(called, "ok")
              /\ UNCHANGED <<tasks, calls, chan>>
          ELSE IF ~opened THEN
              /\ imp' = Returned(called, "err")
              /\ UNCHANGED <<tasks, calls, chan>>
          ELSE IF feeds = <<>> THEN
              /\ imp' = Returned(called, "ok")
              /\ UNCHANGED <<tasks, calls, chan>>
          ELSE
              /\ imp' = [called EXCEPT !.pc = "waiting", !.feeds = feeds,
                                       !.pool = TRUE]
              /\ tasks' = [t \in 1..Len(feeds) |->
                             NewTask("feed", NoId, max_download_retries, t)]
              /\ calls' = [t \in 1..Len(feeds) |->
                             [kind |-> "feed", eps |-> <<NoId>>]]
              /\ chan' = [t \in 1..Len(feeds) |-> <<>>]
    /\ UNCHANGED <<config, rx, db, episodes, ui, arena, offUi>>

\* import_from_opml up to its first recv().await: the file is read and
\* parsed into list, the database is opened (opened: Database::new and
\* get_podcasts succeed), the feeds already subscribed are dropped, and one
\* check_feed is submitted for each of the others
ImportFromOpml(list, opened) ==
    /\ imp.pc = "idle"
    /\ tasks = <<>>
    /\ Len(list) <= MaxTasks
    /\ LET feeds == Retained(list, db)
           called == [imp EXCEPT !.opml = list, !.old = DbUrls(db)]
       IN IF list = <<>> THEN
              /\ imp' = Returned(called, "ok")
              /\ UNCHANGED <<tasks, calls, chan>>
          ELSE IF ~opened THEN
              /\ imp' = Returned(called, "err")
              /\ UNCHANGED <<tasks, calls, chan>>
          ELSE IF feeds = <<>> THEN
              /\ imp' = Returned(called, "ok")
              /\ UNCHANGED <<tasks, calls, chan>>
          ELSE
              /\ imp' = [called EXCEPT !.pc = "waiting", !.feeds = feeds,
                                       !.pool = TRUE]
              /\ tasks' = [t \in 1..Len(feeds) |->
                             NewTask("feed", NoId, max_download_retries, t)]
              /\ calls' = [t \in 1..Len(feeds) |->
                             [kind |-> "feed", eps |-> <<NoId>>]]
              /\ chan' = [t \in 1..Len(feeds) |-> <<>>]
    /\ UNCHANGED <<config, rx, db, episodes, ui, arena, offUi>>

\* the replies the loop of import_from_opml counts
Replies == {"NewData", "Error", "SyncData"}

ImportRecvCountsAll(t, insertOk) ==
    /\ imp.pc = "waiting"
    /\ rx.read[t] < Len(chan[t])
    /\ LET m == NextMsg(t)
           new == m.type = "NewData"
           counter == imp.msg_counter + 1
           failure == imp.failure \/ (new /\ ~insertOk) \/ m.type = "Error"
           got == [imp EXCEPT !.msg_counter = counter, !.failure = failure,
                              !.handed = IF new THEN @ \cup {t} ELSE @,
                              !.inserted = IF new /\ insertOk
                                           THEN @ \cup {t} ELSE @]
       IN /\ new \/ insertOk
          /\ db' = IF new /\ insertOk
                   THEN insert_podcast(db, imp.feeds[t]) ELSE db
          /\ IF counter >= Len(imp.feeds)
             THEN /\ imp' = Returned(got, IF failure THEN "err" ELSE "ok")
                  /\ rx' = [Taken(t) EXCEPT !.open = FALSE]
             ELSE /\ imp' = got
                  /\ rx' = Taken(t)
    /\ UNCHANGED <<podVars, episodes, ui, arena, offUi>>

\* one turn of the while loop of import_from_opml: recv() hands out a
\* message of task t; insertOk: insert_podcast succeeds. When the counter
\* reaches the number of feeds the loop is left and the function returns,
\* dropping the receiver
ImportRecv(t, insertOk) ==
    /\ imp.pc = "waiting"
    /\ rx.read[t] < Len(chan[t])
    /\ LET m == NextMsg(t)
           new == m.type = "NewData"
           counter == imp.msg_counter + (IF m.type \in Replies THEN 1 ELSE 0)
           failure == imp.failure \/ (new /\ ~insertOk) \/ m.type = "Error"
           got == [imp EXCEPT !.msg_counter = counter, !.failure = failure,
                              !.handed = IF new THEN @ \cup {t} ELSE @,
                              !.inserted = IF new /\ insertOk
                                           THEN @ \cup {t} ELSE @]
       IN /\ new \/ insertOk
          /\ db' = IF new /\ insertOk
                   THEN insert_podcast(db, imp.feeds[t]) ELSE db
          /\ IF counter >= Len(imp.feeds)
             THEN /\ imp' = Returned(got, IF failure THEN "err" ELSE "ok")
                  /\ rx' = [Taken(t) EXCEPT !.open = FALSE]
             ELSE /\ imp' = got
                  /\ rx' = Taken(t)
    /\ UNCHANGED <<podVars, episodes, ui, arena, offUi>>

\* no import, no reader, an empty podcast database
\* the podcasts the TUI holds and the position it shows the episodes of
Arena(podcasts, podcasts_index) ==
    [podcasts |-> podcasts, podcasts_index |-> podcasts_index]

UiIdle ==
    /\ rx = RxOpen
    /\ imp = ImpIdle
    /\ db = {}
    /\ episodes = {}
    /\ ui = "running"
    /\ arena = Arena(<<>>, 0)

InitPodcast ==
    /\ MoreIdle
    /\ LibIdle
    /\ LrcIdle
    /\ SyncIdle
    /\ UiIdle
    /\ tasks = <<>>
    /\ calls = <<>>
    /\ chan = <<>>
    /\ max_download_retries \in 0..MaxRetries
    /\ concurrent_downloads_max \in PoolSizes

NextPodcast ==
    \/ \E id \in FeedIds : CheckFeed(id, max_download_retries)
    \/ \E eps \in EpLists : DownloadList(eps, max_download_retries)
    \/ \E t \in DOMAIN tasks : FeedStart(t)
    \/ \E t \in DOMAIN tasks, ok \in BOOLEAN, oc \in BOOLEAN :
          FeedResponse(t, ok, oc)
    \/ \E t \in DOMAIN tasks, ok \in BOOLEAN : FeedBody(t, ok)
    \/ \E t \in DOMAIN tasks : DlStart(t)
    \/ \E t \in DOMAIN tasks, ok \in BOOLEAN, s \in HttpStatus, c \in BOOLEAN,
          oc \in BOOLEAN :
          DlResponse(t, ok, s, c, oc)
    \/ \E t \in DOMAIN tasks, b \in BOOLEAN, w \in BOOLEAN : DlBody(t, b, w)

SpecPodcast == InitPodcast /\ [][NextPodcast]_vars

(***************************************************************************)
(* Claims about the podcast tasks (checked under SpecPodcast).             *)
(***************************************************************************)
FeedTasks == {t \in DOMAIN tasks : tasks[t].kind = "feed"}
DlTasks == {t \in DOMAIN tasks : tasks[t].kind = "dl"}
Concluded(t) == tasks[t].pc \in {"done", "panicked"}
DlTerminal == {"DLComplete", "DLResponseError", "DLFileCreateError",
               "DLFileWriteError"}

\* the terminal event C1 names for a concluded check_feed task
FeedTerminal(t) ==
    IF tasks[t].outcome # "ok" THEN "Error"
    ELSE IF tasks[t].id = NoId THEN "NewData" ELSE "SyncData"

\* C1: every check_feed task sends FetchStart first, then exactly one terminal
\* event and nothing after it: NewData when fetch and parse succeed and the
\* feed has no id, SyncData(id) when they succeed and it has one, Error(feed)
\* when the fetch or the parse fails.
C1_CheckFeedEvents ==
    \A t \in FeedTasks :
        /\ Len(chan[t]) <= 2
        /\ tasks[t].pc # "queued" => Len(chan[t]) >= 1
        /\ Len(chan[t]) >= 1 => chan[t][1].type = "FetchPodcastStart"
        /\ Len(chan[t]) = 2 => Concluded(t)
        /\ Concluded(t) => /\ Len(chan[t]) = 2
                           /\ chan[t][2].type = FeedTerminal(t)
                           /\ chan[t][2].id = tasks[t].id

\* C2: download_list enqueues exactly one task per episode it is given, and
\* each task sends DLStart(episode) first, then exactly one of DLComplete,
\* DLResponseError, DLFileCreateError, DLFileWriteError for the same episode,
\* and nothing afterwards.
C2_DownloadEvents ==
    /\ \A c \in DOMAIN calls : calls[c].kind = "dl" =>
          \A i \in DOMAIN calls[c].eps :
              Cardinality({t \in DlTasks : /\ tasks[t].call = c
                                           /\ tasks[t].id = calls[c].eps[i]}) = 1
    /\ \A t \in DlTasks :
        /\ Len(chan[t]) <= 2
        /\ tasks[t].pc # "queued" => Len(chan[t]) >= 1
        /\ Len(chan[t]) >= 1 => /\ chan[t][1].type = "DLStart"
                                /\ chan[t][1].id = tasks[t].id
        /\ Len(chan[t]) = 2 => Concluded(t)
        /\ Concluded(t) => /\ Len(chan[t]) = 2
                           /\ chan[t][2].type \in DlTerminal
                           /\ chan[t][2].id = tasks[t].id

\* C3: for every retry budget, 0 included, a task whose every request fails
\* sends at most max_retries retries (max_retries + 1 requests), its counter
\* never passes below zero, and it ends having sent its error event (Error /
\* DLResponseError) exactly once.
C3_RetryBudget ==
    \A t \in DOMAIN tasks :
        /\ tasks[t].requests <= max_download_retries + 1
        /\ tasks[t].max_retries <= max_download_retries
        /\ tasks[t].pc # "panicked"
        /\ tasks[t].outcome = "fetch_failed" =>
              /\ Len(chan[t]) = 2
              /\ chan[t][2].type \in {"Error", "DLResponseError"}

(***************************************************************************)
(* The specifications of the library indexer.                              *)
(***************************************************************************)
PodIdle ==
    /\ tasks = <<>>
    /\ calls = <<>>
    /\ chan = <<>>
    /\ max_download_retries = 0
    /\ concurrent_downloads_max = 1

\* one DataBase, a library of any content on disk, an empty catalog
InitSync ==
    /\ MoreIdle
    /\ LibIdle
    /\ LrcIdle
    /\ PodIdle
    /\ UiIdle
    /\ disk \in {d \in [Paths -> ({Absent} \cup Times)] : d["a/n.txt"] = 1}
    /\ catalog = {}
    /\ max_depth \in ScanDepths
    /\ sync = <<IdleThread>>
    /\ env = [fs_ops |-> 0, passes |-> 0]
    /\ observed = FALSE

NextSync ==
    \/ \E s \in Threads : SyncDatabase(s)
    \/ \E s \in Threads : WalkNothing(s)
    \/ \E s \in Threads, p \in Paths, m \in BOOLEAN : WalkFile(s, p, m)
    \/ \E s \in Threads, p \in Paths : WalkVanished(s, p)
    \/ \E s \in Threads, ok \in BOOLEAN : AddRecords(s, ok)
    \/ \E s \in Threads, ok \in BOOLEAN : NeedDelete(s, ok)
    \/ \E s \in Threads, ok \in BOOLEAN : DeleteRecords(s, ok)
    \/ GetAllRecords
    \/ \E p \in Paths, m \in Times : WriteFile(p, m)
    \/ \E p \in Paths : RemoveFile(p)

SpecSync == InitSync /\ [][NextSync]_vars

\* the catalogs earlier passes leave behind when the files they indexed with
\* the older mtime have since been modified or removed
StaleCatalogs ==
    {{Row(p, 1) : p \in S} : S \in SUBSET {q \in Paths : filetype_supported(q)}}

\* a DataBase and a clone of it: two sync threads over a library that has
\* changed since it was indexed (the file of the subdirectory is gone), and
\* stays as it is while they run
InitSync2 ==
    /\ MoreIdle
    /\ LibIdle
    /\ LrcIdle
    /\ PodIdle
    /\ UiIdle
    /\ disk \in {d \in [Paths -> ({Absent} \cup Times)] :
                    d["a/n.txt"] = 1 /\ d["a/c/y.mp3"] = Absent}
    /\ catalog \in StaleCatalogs
    /\ max_depth = Unlimited
    /\ sync = <<IdleThread, IdleThread>>
    /\ env = [fs_ops |-> 0, passes |-> 0]
    /\ observed = FALSE

NextSync2 ==
    \/ \E s \in Threads : SyncDatabase(s)
    \/ \E s \in Threads : WalkNothing(s)
    \/ \E s \in Threads, p \in Paths, m \in BOOLEAN : WalkFile(s, p, m)
    \/ \E s \in Threads, ok \in BOOLEAN : AddRecords(s, ok)
    \/ \E s \in Threads, ok \in BOOLEAN : NeedDelete(s, ok)
    \/ \E s \in Threads, ok \in BOOLEAN : DeleteRecords(s, ok)

SpecSync2 == InitSync2 /\ [][NextSync2]_vars

(***************************************************************************)
(* Claims about the library indexer (checked under SpecSync, C9 under      *)
(* SpecSync2).  The locals of a thread are gone once it has ended, so what *)
(* holds "after a pass" is stated of the step that ends the pass.          *)
(***************************************************************************)
\* the step with which the pass of thread s ends in one of pcs
PassEnds(s, pcs) == InPass(s) /\ sync'[s].pc \in pcs

\* the pass of thread s has committed its inserts and not (yet) its deletes
BetweenTransactions(s) == sync[s].pc \in {"need_delete", "delete"}

C6_EveryFileHasRow ==
    [][\A s \in Threads :
          (PassEnds(s, {"done"}) /\ ~sync[s].fs_changed) =>
              \A p \in Paths :
                  (Admitted(p) /\ p \notin sync[s].unparsed) =>
                      p \in Files(catalog')]_vars

\* C7: an admitted file is skipped if and only if the row of that same path
\* has last_modified >= the mtime of the file, and after a pass (no file
\* system change during it) the row of every file that parsed has
\* last_modified >= the mtime of its file.
C7_SkipIffSamePathRowFresh ==
    [][\A s \in Threads :
          /\ \A p \in Paths :
                (/\ sync[s].pc = "walk"
                 /\ p \in sync[s].todo
                 /\ sync'[s].pc \in {"walk", "add"}
                 /\ p \notin sync'[s].todo
                 /\ disk[p] # Absent) =>
                    (p \notin sync'[s].need_updates \cup sync'[s].unparsed
                       <=> \E r \in catalog : /\ r.file = p
                                              /\ r.last_modified >= disk[p])
          /\ (PassEnds(s, {"done"}) /\ ~sync[s].fs_changed) =>
                \A r \in catalog' :
                    r.file \notin sync[s].unparsed =>
                        r.last_modified >= disk[r.file]]_vars

C9_OneRowPerPath ==
    \A r1 \in catalog : \A r2 \in catalog : r1.file = r2.file => r1 = r2

\* two concurrent passes have both upserted the same path
C9_Witness ==
    /\ Cardinality(Threads) = 2
    /\ \E p \in Paths :
          \A s \in Threads : BetweenTransactions(s) /\ p \in sync[s].need_updates

\* C10: when the metadata or the mtime of a file cannot be read during a pass
\* (the file was removed mid-pass) the file counts as needing an update and
\* the pass goes on; the sync thread never panics.
C10_NeverPanics == \A s \in Threads : sync[s].pc # "panicked"

(***************************************************************************)
(* The specification of the OPML import.                                   *)
(***************************************************************************)
InitImport ==
    /\ MoreIdle
    /\ LibIdle
    /\ LrcIdle
    /\ SyncIdle
    /\ tasks = <<>>
    /\ calls = <<>>
    /\ chan = <<>>
    /\ max_download_retries \in 0..MaxRetries
    /\ concurrent_downloads_max \in PoolSizes
    /\ rx = RxOpen
    /\ imp = ImpIdle
    /\ db \in OldCatalogs
    /\ episodes = {}
    /\ ui = "running"
    /\ arena = Arena(<<>>, 0)

NextImport ==
    \/ \E list \in UrlLists(MaxTasks), opened \in BOOLEAN :
          ImportFromOpml(list, opened)
    \/ \E t \in DOMAIN tasks : FeedStart(t)
    \/ \E t \in DOMAIN tasks, ok \in BOOLEAN, oc \in BOOLEAN :
          FeedResponse(t, ok, oc)
    \/ \E t \in DOMAIN tasks, ok \in BOOLEAN : FeedBody(t, ok)
    \/ \E t \in DOMAIN tasks, insertOk \in BOOLEAN : ImportRecv(t, insertOk)

SpecImport == InitImport /\ [][NextImport]_vars

(***************************************************************************)
(* Claims about the OPML import (checked under SpecImport).                *)
(***************************************************************************)
\* the tasks import_from_opml submitted
ImportTasks == 1..Len(imp.feeds)

\* the terminal reply of task t has been received
ReplyReceived(t) ==
    /\ rx.read[t] = 2
    /\ chan[t][2].type \in Replies

\* C11: import_from_opml, once it has submitted its check_feed tasks, returns
\* only after it has received exactly len(new_feeds) terminal replies
\* (FetchPodcastStart is not counted): when it returns every submitted feed
\* has delivered its terminal reply and every NewData received has been
\* handed to insert_podcast.
C11_ReturnsAfterAllReplies ==
    (imp.pc = "returned" /\ imp.pool) =>
        /\ imp.msg_counter = Len(imp.feeds)
        /\ \A t \in ImportTasks :
              /\ tasks[t].pc = "done"
              /\ ReplyReceived(t)
              /\ chan[t][2].type = "NewData" => t \in imp.handed

\* an import of two feeds has returned, one of them inserted
C11_Witness ==
    /\ imp.pc = "returned"
    /\ Len(imp.feeds) = 2
    /\ imp.handed # {}
    /\ imp.msg_counter = 2

\* how often u is in list
Occurrences(list, u) == Cardinality({i \in DOMAIN list : list[i] = u})

\* C12: import_from_opml submits no check_feed task for an imported feed whose
\* URL a podcast of the catalog already has and exactly one, with id absent,
\* for every other imported feed; when no feed remains it returns success
\* without a task pool and without inserting anything.
C12_OneTaskPerNewFeed ==
    (imp.pc # "idle" /\ ~(imp.result = "err" /\ ~imp.pool)) =>
        /\ Len(tasks) = Len(imp.feeds)
        /\ \A t \in DOMAIN tasks : tasks[t].kind = "feed" /\ tasks[t].id = NoId
        /\ \A u \in Urls :
              Occurrences(imp.feeds, u) =
                  IF u \in imp.old THEN 0 ELSE Occurrences(imp.opml, u)
        /\ imp.feeds = <<>> =>
              /\ ~imp.pool
              /\ imp.result = "ok"
              /\ DbUrls(db) = imp.old

\* an import of a subscribed feed and a new one has submitted one task
C12_Witness ==
    /\ imp.pc = "waiting"
    /\ Len(imp.opml) = 2
    /\ Len(tasks) = 1
    /\ \E i \in DOMAIN imp.opml : imp.opml[i] \in imp.old

\* the fetch or the insert of the feed of task t has failed
FeedFailed(t) ==
    \/ tasks[t].outcome \in {"fetch_failed", "parse_failed"}
    \/ t \in imp.handed \ imp.inserted

\* C13: a feed that fails to fetch or to insert does not stop the import:
\* every NewData that arrives is still handed to insert_podcast, the import
\* does not stay waiting once every task has ended and every message is
\* taken, and it returns an error if and only if a feed failed to fetch or
\* to insert.
C13_ImportContinuesAndReports ==
    /\ \A t \in ImportTasks :
          (rx.read[t] = 2 /\ chan[t][2].type = "NewData") => t \in imp.handed
    /\ imp.pc = "waiting" =>
          \E t \in ImportTasks :
              \/ ~Concluded(t)
              \/ rx.read[t] < Len(chan[t])
    /\ (imp.pc = "returned" /\ imp.pool) =>
          (imp.result = "err" <=> \E t \in ImportTasks : FeedFailed(t))

(***************************************************************************)
(* tui/src/ui/components/podcast.rs: the podcast handlers of the TUI       *)
(***************************************************************************)
\* the guids the items of a feed carry
Guids == {"g1", "g2"}

\* the items a fetched feed can hold (a guid can come twice)
ItemLists == {<<"g1">>, <<"g1", "g2">>, <<"g1", "g1">>}

Episode(id, pod_id, guid, path) ==
    [id |-> id, pod_id |-> pod_id, guid |-> guid, path |-> path]

\* the episodes of a podcast
EpisodesOf(id) == {e \in episodes : e.pod_id = id}

\* the ids of a set of rows, in the order of the list the TUI shows
RECURSIVE InOrder(_)
InOrder(ids) ==
    IF ids = {} THEN <<>>
    ELSE LET least == CHOOSE i \in ids : \A k \in ids : i <= k
         IN <<least>> \o InOrder(ids \ {least})

\* Database::get_podcasts: the podcasts in the order of their ids, each with
\* the ids of its episodes
get_podcasts(pods, eps) ==
    LET ids == InOrder({p.id : p \in pods})
    IN [i \in 1..Len(ids) |->
           [id |-> ids[i],
            episodes |-> {e.id : e \in {x \in eps : x.pod_id = ids[i]}}]]

\* the episodes of pod_id after the items of a feed are stored: an item whose
\* guid the podcast already has updates that episode, any other is a new one
RECURSIVE StoreItems(_, _, _)
StoreItems(eps, pod_id, items) ==
    IF items = <<>> THEN eps
    ELSE LET known == \E e \in eps : e.pod_id = pod_id /\ e.guid = Head(items)
             new == Episode(RowId({e.id : e \in eps}), pod_id, Head(items),
                            FALSE)
         IN StoreItems(IF known THEN eps ELSE eps \cup {new}, pod_id,
                       Tail(items))

\* Database::insert_file: the path of the downloaded file is set
insert_file(eps, id) ==
    {IF e.id = id THEN [e EXCEPT !.path = TRUE] ELSE e : e \in eps}

\* PodcastFeed::new(Some(pod.id), pod.url, ..) and check_feed for each of ps
RefreshTasks(ids) ==
    [i \in 1..Len(ids) |->
        NewTask("feed", ids[i], max_download_retries, Len(calls) + i)]

RefreshCalls(ids) ==
    [i \in 1..Len(ids) |->
        [kind |-> "feed", eps |-> <<ids[i]>>,
         url |-> (CHOOSE p \in db : p.id = ids[i]).url]]

\* podcast_refresh_feeds(index): Some(i) refreshes the podcast selected,
\* None all of them
PodcastRefreshFeeds(ids) ==
    /\ ui = "running"
    /\ ids # <<>>
    /\ \/ \E p \in db : ids = <<p.id>>
       \/ ids = InOrder({p.id : p \in db})
    /\ Len(tasks) + Len(ids) <= MaxTasks
    /\ tasks' = tasks \o RefreshTasks(ids)
    /\ calls' = calls \o RefreshCalls(ids)
    /\ chan' = chan \o [i \in 1..Len(ids) |-> <<>>]
    /\ UNCHANGED <<config, offPod>>

\* the episodes episode_download asks for: those of the list without a file
WithoutFile(ids) == {i \in ids : \E e \in episodes : e.id = i /\ ~e.path}

\* episode_download(index) on the podcast selected: Some(idx) downloads the
\* episode selected, None every episode; dirOk: create_podcast_dir succeeds
EpisodeDownload(pod_id, ids, dirOk) ==
    /\ ui = "running"
    /\ \E p \in db : p.id = pod_id
    /\ \/ \E e \in EpisodesOf(pod_id) : ids = WithoutFile({e.id})
       \/ ids = WithoutFile({e.id : e \in EpisodesOf(pod_id)})
    /\ ids # {}
    /\ dirOk
    /\ DownloadList(InOrder(ids), max_download_retries)

\* add_or_sync_data(pod, pod_id): update_podcast for Some(id), insert_podcast
\* for None, then the list is read again from the database
add_or_sync_data(url, items, pod_id) ==
    /\ IF pod_id # NoId
       THEN /\ db' = db
            /\ episodes' = StoreItems(episodes, pod_id, items)
       ELSE /\ db' = insert_podcast(db, url)
            /\ episodes' = StoreItems(episodes, NextId(db), items)
    /\ arena' = [arena EXCEPT !.podcasts = get_podcasts(db', episodes')]

\* one turn of the main loop: recv() hands out a message of task t and the
\* handler of its kind runs. items: the episodes of the feed that was
\* fetched; ok: the database call of the handler succeeds
TuiRecv(t, items, ok) ==
    /\ ui = "running"
    /\ rx.open
    /\ rx.read[t] < Len(chan[t])
    /\ rx' = Taken(t)
    /\ LET m == NextMsg(t)
       IN IF m.type \in {"NewData", "SyncData"} THEN
              /\ IF ok
                 THEN add_or_sync_data(calls[tasks[t].call].url, items,
                                       IF m.type = "SyncData" THEN m.id
                                       ELSE NoId)
                 ELSE UNCHANGED <<db, episodes, arena>>
              /\ UNCHANGED ui
          ELSE IF m.type = "DLComplete" THEN
              /\ items = <<>>
              /\ IF ~m.path
                 THEN /\ ui' = "panicked"
                      /\ UNCHANGED <<db, episodes, arena>>
                 ELSE /\ episodes' = IF ok THEN insert_file(episodes, m.id)
                                     ELSE episodes
                      /\ UNCHANGED <<db, ui, arena>>
          ELSE /\ items = <<>>
               /\ ok
               /\ UNCHANGED <<db, episodes, ui, arena>>
    /\ UNCHANGED <<podVars, imp, offUi>>

\* the TUI quits: the receiver is dropped while tasks may still run
Quit ==
    /\ ui = "running"
    /\ ui' = "quit"
    /\ rx' = [rx EXCEPT !.open = FALSE]
    /\ UNCHANGED <<podVars, imp, db, episodes, arena, offUi>>

\* what the podcast handlers of the arena leave alone
offArena == <<podVars, syncVars, rx, imp, ui, lrcVars, libVars, pos, adjusts,
              wire>>

\* podcasts.get(podcasts_index) of podcast_sync_episodes, episode_download and
\* episode_mark_played: 'get podcast selected failed.' when the list is not
\* empty and holds nothing at podcasts_index
GetPodcastSelectedFails(a) ==
    a.podcasts # <<>> /\ a.podcasts_index >= Len(a.podcasts)

\* Vec::remove(index), index counted from 0
VecRemove(v, index) == SubSeq(v, 1, index) \o SubSeq(v, index + 2, Len(v))

saturating_sub(a, b) == IF a >= b THEN a - b ELSE 0

\* Database::remove_files of the episodes of a podcast: their paths are gone
remove_files(eps, ids) ==
    {IF e.pod_id \in ids THEN [e EXCEPT !.path = FALSE] ELSE e : e \in eps}

\* Database::remove_podcast: the row and the episodes of it
remove_podcast(pods, id) == {p \in pods : p.id # id}

\* podcast_remove_feed. stateOk: the list widget gives its position,
\* feed_index; filesOk: podcast_delete_files succeeds; dbOk: remove_podcast
\* of the database succeeds
PodcastRemoveFeed(stateOk, feed_index, filesOk, dbOk) ==
    /\ ui = "running"
    /\ LET before == arena.podcasts_index
           inList == feed_index < Len(arena.podcasts)
           id == arena.podcasts[feed_index + 1].id
       IN IF arena.podcasts = <<>> THEN
              /\ handled' = Call("podcast_remove_feed", TRUE, before)
              /\ UNCHANGED <<db, episodes, arena>>
          ELSE IF stateOk /\ (~inList \/ ~filesOk) THEN
              \* podcast_delete_files(feed_index)? returns the error
              /\ handled' = Call("podcast_remove_feed", FALSE, before)
              /\ UNCHANGED <<db, episodes, arena>>
          ELSE IF stateOk /\ ~dbOk THEN
              \* remove_podcast(id)? returns the error, after podcasts.remove
              /\ arena' = [arena EXCEPT !.podcasts = VecRemove(@, feed_index)]
              /\ episodes' = remove_files(episodes, {id})
              /\ handled' = Call("podcast_remove_feed", FALSE, before)
              /\ UNCHANGED db
          ELSE
              /\ arena' = Arena(IF stateOk
                                THEN VecRemove(arena.podcasts, feed_index)
                                ELSE arena.podcasts,
                                saturating_sub(arena.podcasts_index, 1))
              /\ db' = IF stateOk THEN remove_podcast(db, id) ELSE db
              /\ episodes' = IF stateOk
                             THEN {e \in episodes : e.pod_id # id}
                             ELSE episodes
              /\ handled' = Call("podcast_remove_feed", TRUE, before)
    /\ UNCHANGED offArena

\* podcast_remove_all_feeds. filesOk: the files are deleted (a failure is
\* dropped by .ok()); dbOk: clear_db succeeds
PodcastRemoveAllFeeds(filesOk, dbOk) ==
    /\ ui = "running"
    /\ LET before == arena.podcasts_index
           gone == IF filesOk
                   THEN remove_files(episodes,
                                     {arena.podcasts[i].id :
                                         i \in DOMAIN arena.podcasts})
                   ELSE episodes
       IN IF arena.podcasts = <<>> THEN
              /\ handled' = Call("podcast_remove_all_feeds", TRUE, before)
              /\ UNCHANGED <<db, episodes, arena>>
          ELSE IF ~dbOk THEN
              /\ episodes' = gone
              /\ handled' = Call("podcast_remove_all_feeds", FALSE, before)
              /\ UNCHANGED <<db, arena>>
          ELSE
              /\ db' = {}
              /\ episodes' = {}
              /\ arena' = Arena(<<>>, 0)
              /\ handled' = Call("podcast_remove_all_feeds", TRUE, before)
    /\ UNCHANGED offArena

\* the first position of the list that holds(podcast), counted from 0
FirstIndex(holds(_)) ==
    LET found == {i \in DOMAIN arena.podcasts : holds(arena.podcasts[i])}
    IN IF found = {} THEN None
       ELSE Some((CHOOSE i \in found : \A k \in found : i <= k) - 1)

\* podcast_find_by_ep_id: podcasts_index is set where the episode is found
PodcastFindByEpId(ep_id) ==
    /\ ui = "running"
    /\ LET Holds(p) == ep_id \in p.episodes
           at == FirstIndex(Holds)
       IN /\ arena' = IF at = None THEN arena
                      ELSE [arena EXCEPT !.podcasts_index = at.v]
          /\ handled' = Call("podcast_find_by_ep_id", at # None,
                             arena.podcasts_index)
    /\ UNCHANGED <<db, episodes, offArena>>

\* podcast_find_by_pod_id: podcasts_index is set where the podcast is found
PodcastFindByPodId(pod_id) ==
    /\ ui = "running"
    /\ LET Holds(p) == p.id = pod_id
           at == FirstIndex(Holds)
       IN /\ arena' = IF at = None THEN arena
                      ELSE [arena EXCEPT !.podcasts_index = at.v]
          /\ handled' = Call("podcast_find_by_pod_id", at # None,
                             arena.podcasts_index)
    /\ UNCHANGED <<db, episodes, offArena>>

\* add_or_sync_data called for a feed that was fetched: a feed not subscribed
\* yet is inserted, a subscribed one is updated under its id. ok: the calls
\* of the database succeed
AddOrSyncData(url, items, pod_id, ok) ==
    /\ ui = "running"
    /\ IF pod_id = NoId
       THEN url \notin DbUrls(db) /\ NextId(db) <= MaxPodId
       ELSE Podcast(pod_id, url) \in db
    /\ IF ok
       THEN add_or_sync_data(url, items, pod_id)
       ELSE UNCHANGED <<db, episodes, arena>>
    /\ handled' = Call("add_or_sync_data", ok, arena.podcasts_index)
    /\ UNCHANGED offArena

\* the retry budgets the TUI runs with: none, and one
TuiRetries == {0, 1}

\* a TUI with two subscriptions, the first with two episodes not downloaded,
\* and a task pool of one of the sizes pools
InitTui(pools) ==
    /\ MoreIdle
    /\ LibIdle
    /\ LrcIdle
    /\ SyncIdle
    /\ tasks = <<>>
    /\ calls = <<>>
    /\ chan = <<>>
    /\ max_download_retries \in TuiRetries
    /\ concurrent_downloads_max \in pools
    /\ rx = RxOpen
    /\ imp = ImpIdle
    /\ db = {Podcast(1, "u1"), Podcast(2, "u2")}
    /\ episodes = {Episode(1, 1, "g1", FALSE), Episode(2, 1, "g2", FALSE)}
    /\ ui = "running"
    /\ arena = Arena(get_podcasts(db, episodes), 0)

\* the refreshes of the TUI and the handling of their replies
NextRefresh ==
    \/ \E ids \in {<<1>>, <<2>>, <<1, 2>>} : PodcastRefreshFeeds(ids)
    \/ \E t \in DOMAIN tasks : FeedStart(t)
    \/ \E t \in DOMAIN tasks, ok \in BOOLEAN, oc \in BOOLEAN :
          FeedResponse(t, ok, oc)
    \/ \E t \in DOMAIN tasks, ok \in BOOLEAN : FeedBody(t, ok)
    \/ \E t \in DOMAIN tasks, items \in ItemLists \cup {<<>>}, ok \in BOOLEAN :
          TuiRecv(t, items, ok)

SpecRefresh == InitTui(PoolSizes) /\ [][NextRefresh]_vars

\* the downloads of the TUI, one at a time, and the handling of their
\* replies (the servers answer with a success status)
NextDownload ==
    \/ \E id \in 1..2, ids \in SUBSET Episodes, dirOk \in BOOLEAN :
          EpisodeDownload(id, ids, dirOk)
    \/ \E t \in DOMAIN tasks : DlStart(t)
    \/ \E t \in DOMAIN tasks, ok \in BOOLEAN, c \in BOOLEAN, oc \in BOOLEAN :
          DlResponse(t, ok, "2xx", c, oc)
    \/ \E t \in DOMAIN tasks, b \in BOOLEAN, w \in BOOLEAN : DlBody(t, b, w)
    \/ \E t \in DOMAIN tasks, ok \in BOOLEAN : TuiRecv(t, <<>>, ok)

SpecDownload == InitTui({1}) /\ [][NextDownload]_vars

\* the podcast tasks while the TUI quits: a feed check and a download handed
\* to a pool of one
InitShutdown ==
    /\ MoreIdle
    /\ LibIdle
    /\ LrcIdle
    /\ SyncIdle
    /\ UiIdle
    /\ tasks = <<>>
    /\ calls = <<>>
    /\ chan = <<>>
    /\ max_download_retries \in TuiRetries
    /\ concurrent_downloads_max = 1

NextShutdown ==
    \/ \E id \in FeedIds : CheckFeed(id, max_download_retries)
    \/ DownloadList(<<1>>, max_download_retries)
    \/ \E t \in DOMAIN tasks : FeedStart(t)
    \/ \E t \in DOMAIN tasks, ok \in BOOLEAN, oc \in BOOLEAN :
          FeedResponse(t, ok, oc)
    \/ \E t \in DOMAIN tasks, ok \in BOOLEAN : FeedBody(t, ok)
    \/ \E t \in DOMAIN tasks : DlStart(t)
    \/ \E t \in DOMAIN tasks, ok \in BOOLEAN, s \in HttpStatus, c \in BOOLEAN,
          oc \in BOOLEAN :
          DlResponse(t, ok, s, c, oc)
    \/ \E t \in DOMAIN tasks, b \in BOOLEAN, w \in BOOLEAN : DlBody(t, b, w)
    \/ Quit

SpecShutdown == InitShutdown /\ [][NextShutdown]_vars

(***************************************************************************)
(* Claims about the podcast handlers of the TUI.                           *)
(***************************************************************************)
\* the reply of task t has been handled by the main loop
Handled(t) == rx.read[t] = 2

\* C14: after any sequence of feed refreshes, each reply handled through
\* add_or_sync_data, no two podcasts have the same feed URL and no podcast
\* has two episodes with the same guid: a refresh task carries the id of its
\* podcast, its success event is SyncData for that id and never NewData, and
\* the podcast is updated in place, not inserted.
C14_RefreshKeepsUnique ==
    /\ \A p1 \in db : \A p2 \in db : p1.url = p2.url => p1 = p2
    /\ \A e1 \in episodes : \A e2 \in episodes :
          (e1.pod_id = e2.pod_id /\ e1.guid = e2.guid) => e1 = e2
    /\ \A t \in FeedTasks :
          /\ \E p \in db : p.id = tasks[t].id /\ p.url = calls[tasks[t].call].url
          /\ \A i \in DOMAIN chan[t] :
                /\ chan[t][i].type # "NewData"
                /\ chan[t][i].type = "SyncData" => chan[t][i].id = tasks[t].id
          /\ (Concluded(t) /\ tasks[t].outcome = "ok") =>
                chan[t][2].type = "SyncData"
    /\ Cardinality(db) = 2

\* a podcast has been refreshed twice, both replies handled, episodes stored
C14_Witness ==
    \E t1 \in FeedTasks : \E t2 \in FeedTasks :
        /\ t1 # t2
        /\ tasks[t1].id = tasks[t2].id
        /\ Handled(t1) /\ chan[t1][2].type = "SyncData"
        /\ Handled(t2) /\ chan[t2][2].type = "SyncData"
        /\ EpisodesOf(tasks[t1].id) # {}
        /\ Cardinality(episodes) > 2

\* C15: the local path of an episode is recorded only as the effect of a
\* DLComplete for that episode; every DLComplete carries the path of a file
\* that was created and to which the whole body was written; DLResponseError
\* carries no path; episode_download_complete never finds the path missing.
C15_PathOnlyFromComplete ==
    /\ \A e \in episodes :
          e.path => \E t \in DlTasks : /\ tasks[t].id = e.id
                                       /\ Handled(t)
                                       /\ chan[t][2].type = "DLComplete"
    /\ \A t \in DlTasks : \A i \in DOMAIN chan[t] :
          /\ chan[t][i].type = "DLComplete" =>
                /\ chan[t][i].path
                /\ tasks[t].path
                /\ tasks[t].outcome = "ok"
          /\ chan[t][i].type = "DLResponseError" => ~chan[t][i].path
    /\ ui # "panicked"

\* the file of an episode has been downloaded and its path recorded
C15_Witness ==
    \E e \in episodes : \E t \in DlTasks :
        /\ e.path
        /\ tasks[t].id = e.id
        /\ Handled(t)
        /\ chan[t][2].type = "DLComplete"

\* the next step of task t when its request is answered, its file created
\* and its body received
TaskStep(t) ==
    \/ FeedStart(t)
    \/ DlStart(t)
    \/ FeedResponse(t, TRUE, TRUE)
    \/ DlResponse(t, TRUE, "2xx", FALSE, TRUE)
    \/ DlResponse(t, TRUE, "2xx", TRUE, TRUE)
    \/ FeedBody(t, TRUE)
    \/ DlBody(t, TRUE, TRUE)

\* C16: a send on the event channel never blocks a producer task, and with
\* the receiver closed the failed send is ignored: a task that can run (it
\* has started, or the pool has room for it) always has its next step, with
\* or without a receiver, and a task never panics on a send (it panics only
\* where its retry counter underflows, C3).
C16_SendNeverStopsTask ==
    \A t \in DOMAIN tasks :
        /\ (tasks[t].pc \in {"fetch", "body"}
              \/ (tasks[t].pc = "queued" /\ PoolHasRoom)) => ENABLED TaskStep(t)
        /\ tasks[t].pc = "panicked" =>
              /\ max_download_retries = 0
              /\ tasks[t].outcome = "fetch_failed"

\* with the receiver closed a download has run to its end, the file written,
\* all its sends failed; a feed check has ended with its last send failed
C16_Witness ==
    /\ ~rx.open
    /\ \E t \in DlTasks :
          /\ tasks[t].pc = "done"
          /\ tasks[t].outcome = "ok"
          /\ chan[t] = <<>>
    /\ \E t \in FeedTasks :
          /\ tasks[t].pc = "done"
          /\ Len(chan[t]) = 1

\* C17: at any time the number of tasks of one pool that are executing (begun
\* and not yet concluded) is at most concurrent_downloads_max, however many
\* feeds or episodes were handed to the pool.
C17_PoolBound == Cardinality(Running) <= concurrent_downloads_max

\* more tasks were handed to the pool than it has places: the pool is full
\* and a task waits
C17_Witness ==
    /\ Len(tasks) > concurrent_downloads_max
    /\ Cardinality(Running) = concurrent_downloads_max
    /\ \E t \in DOMAIN tasks : tasks[t].pc = "queued"

(***************************************************************************)
(* The LRC engine: from_str on every text of up to MaxLines lines, and     *)
(* merge_adjacent on every sorted Lyric of up to MaxLines captions.        *)
(***************************************************************************)
InitLrc ==
    /\ MoreIdle
    /\ LibIdle
    /\ SyncIdle
    /\ PodIdle
    /\ UiIdle
    /\ \/ \E ls \in LineLists :
              lyric = LyricOf("text", LrcText(ls), 0, <<>>, <<>>)
       \/ \E st \in SortedCaptions :
              lyric = LyricOf("built", <<>>, 0, <<>>, Built(st))
    /\ reply = NoReply

NextLrc ==
    \/ FromStr
    \/ MergeAdjacent

SpecLrc == InitLrc /\ [][NextLrc]_vars

\* caps has three captions in a row, each less than 2000 ms after the one
\* before it, the third not less than 2000 ms after the first
HasChain(caps) ==
    \E i \in 1..(Len(caps) - 2) :
        /\ caps[i + 1].timestamp - caps[i].timestamp < MergeWindow
        /\ caps[i + 2].timestamp - caps[i + 1].timestamp < MergeWindow
        /\ caps[i + 2].timestamp - caps[i].timestamp >= MergeWindow

\* C18: after from_str every two adjacent captions are at least 2000 ms
\* apart, chains of three or more close captions included.
C18_AdjacentGaps ==
    lyric.pc = "parsed" =>
        \A i \in 1..(Len(lyric.captions) - 1) :
            lyric.captions[i + 1].timestamp - lyric.captions[i].timestamp
                >= MergeWindow

\* a text of three time lines, not in order, that make a chain when sorted
C18_Witness ==
    /\ lyric.pc = "parsed"
    /\ HasChain(lyric.before)
    /\ ~IsSorted(Parsed(lyric.text).captions)
    /\ Len(lyric.captions) = 2

\* C19: the captions from_str returns are in non-decreasing order of
\* timestamp whatever the order of the lines, and no timestamp is negative.
C19_SortedNonNegative ==
    lyric.pc = "parsed" =>
        /\ IsSorted(lyric.captions)
        /\ \A i \in DOMAIN lyric.captions : lyric.captions[i].timestamp >= 0

\* time lines in descending order, far enough apart to stay three captions,
\* with a negative offset
C19_Witness ==
    /\ lyric.pc = "parsed"
    /\ Len(Parsed(lyric.text).captions) = Len(lyric.captions)
    /\ Len(lyric.captions) >= 2
    /\ \A i \in 1..(Len(lyric.captions) - 1) :
          Parsed(lyric.text).captions[i].timestamp
              > Parsed(lyric.text).captions[i + 1].timestamp
    /\ lyric.offset < 0

\* the caption the i-th caption is merged into: the first caption, or the
\* latest caption at least 2000 ms after the one its predecessor went into
RECURSIVE HeadOf(_, _)
HeadOf(caps, i) ==
    IF i = 1
    THEN 1
    ELSE LET h == HeadOf(caps, i - 1)
         IN  IF caps[i].timestamp - caps[h].timestamp < MergeWindow
             THEN h
             ELSE i

Heads(caps) == {i \in DOMAIN caps : HeadOf(caps, i) = i}

\* the texts that follow caption h in its group, each after two spaces
RECURSIVE JoinFrom(_, _, _)
JoinFrom(caps, h, i) ==
    IF i > Len(caps) \/ HeadOf(caps, i) # h
    THEN <<>>
    ELSE TwoSpaces \o caps[i].text \o JoinFrom(caps, h, i + 1)

Pieces(text) == {text[i] : i \in DOMAIN text}

\* C20, as stated: two adjacent captions less than 2000 ms apart end up in
\* the same caption of the result.
C20_NeighboursShareCaption ==
    lyric.pc = "merged" =>
        \A i \in 1..(Len(lyric.before) - 1) :
            lyric.before[i + 1].timestamp - lyric.before[i].timestamp
                  < MergeWindow
            => \E k \in DOMAIN lyric.captions :
                  Pieces(lyric.before[i].text) \cup
                  Pieces(lyric.before[i + 1].text)
                      \subseteq Pieces(lyric.captions[k].text)

\* C20, amended: a caption goes into the result caption before it exactly
\* when it is less than 2000 ms after that caption's timestamp, which is the
\* timestamp of the first caption merged into it; the result has one
\* caption per group, in order, with the first timestamp of the group and the
\* group's texts in order joined by two spaces, so a caption alone in its
\* group is unchanged.
C20_MergesIntoGroupHead ==
    lyric.pc = "merged" =>
        /\ Len(lyric.captions) = Cardinality(Heads(lyric.before))
        /\ \A h \in Heads(lyric.before) :
              LET k == Cardinality({g \in Heads(lyric.before) : g <= h})
              IN  /\ lyric.captions[k].timestamp = lyric.before[h].timestamp
                  /\ lyric.captions[k].text =
                        lyric.before[h].text \o JoinFrom(lyric.before, h, h + 1)

\* merge_adjacent met a chain: the third caption stays out of the merge of
\* the first two although it is close to the second
C20_Witness ==
    /\ lyric.pc = "merged"
    /\ Len(lyric.before) = 3
    /\ HasChain(lyric.before)
    /\ Len(lyric.captions) = 2
    /\ lyric.captions[1].text = TextOf(1) \o TwoSpaces \o TextOf(2)
    /\ lyric.captions[2] = lyric.before[3]

(***************************************************************************)
(* The LRC engine: a text is parsed, written again and parsed again.       *)
(***************************************************************************)
\* the largest fraction of a time tag ("999 milliseconds max")
MaxFrac == 999

\* the one-line texts "[mm:ss.f]1" with every fraction of one to three digits
TagTexts ==
    {<<Line("time", Pad2(m), Pad2(s), Digits(f), NoNumber, TextOf(1))>> :
        m \in {0, 1}, s \in {0, 12}, f \in 0..MaxFrac}

InitLrcText ==
    /\ MoreIdle
    /\ LibIdle
    /\ SyncIdle
    /\ PodIdle
    /\ UiIdle
    /\ \/ \E ls \in LineLists :
              lyric = LyricOf("text", LrcText(ls), 0, <<>>, <<>>)
       \/ \E t \in TagTexts : lyric = LyricOf("text", t, 0, <<>>, <<>>)
    /\ reply = NoReply

NextLrcText ==
    \/ FromStr
    \/ AsLrcText
    \/ FromStrAgain

SpecLrcText == InitLrcText /\ [][NextLrcText]_vars

\* C21: a Lyric that from_str returned is what from_str makes of the text
\* as_lrc_text writes of it: same offset, same captions.
C21_RoundTrip ==
    (lyric.pc = "parsed" /\ reply.op = "from_str") => reply.made = Held

\* C26: "mm:ss.f" parses to (mm*60 + ss)*1000 + f*10 when f < 100 and to
\* (mm*60 + ss)*1000 + f when f >= 100, for every f in 0..999.
C26_ParseTime ==
    (lyric.pc = "parsed" /\ lyric.text \in TagTexts) =>
        LET l == lyric.text[1]
            f == Num(l.f)
        IN  /\ Len(lyric.captions) = 1
            /\ lyric.captions[1].timestamp =
                  (Num(l.m) * 60 + Num(l.s)) * 1000
                      + (IF f < 100 THEN f * 10 ELSE f)

(***************************************************************************)
(* The LRC engine: a Lyric in use. Every sorted Lyric of up to MaxLines    *)
(* captions is asked for its text and index at whole seconds (and at 10    *)
(* ms), adjusted once, and written.                                        *)
(***************************************************************************)
\* 1:01:01.235, for the minutes that pass the hour
HourStamp == ((1 * 60 + 1) * 60 + 1) * 1000 + 235

UseStamps == {s * 1500 : s \in 0..MaxSeconds} \cup {HourStamp}

UseOffsets == {-2000, 0, 2000}

UseCaptions ==
    {caps \in UNION {[1..n -> UseStamps] : n \in 0..MaxLines} :
        \A i \in 1..(Len(caps) - 1) : caps[i] <= caps[i + 1]}

QueryTimes == {k * 1000 : k \in 0..MaxQuery} \cup {10}

Deltas == {-2000, 2000}

InitLrcUse ==
    /\ MoreIdle
    /\ LibIdle
    /\ SyncIdle
    /\ PodIdle
    /\ UiIdle
    /\ lyric \in {LyricOf("built", <<>>, o, <<>>, Built(st)) :
                    o \in UseOffsets, st \in UseCaptions}
    /\ reply = NoReply

NextLrcUse ==
    \/ \E t \in QueryTimes : GetText(t)
    \/ \E t \in QueryTimes : GetIndex(t)
    \/ \E t \in QueryTimes, d \in Deltas : AdjustOffset(t, d)
    \/ AsLrcText

SpecLrcUse == InitLrcUse /\ [][NextLrcUse]_vars

\* the time get_text looks up: max(0, t + 2000 + offset)
LookedUp(time) == Max(0, time + Bias + lyric.offset)

\* i is the last caption whose timestamp is <= time
LastUpTo(i, time) ==
    /\ i \in DOMAIN lyric.captions
    /\ lyric.captions[i].timestamp <= time
    /\ \A j \in DOMAIN lyric.captions :
          j > i => lyric.captions[j].timestamp > time

\* C22, as stated: get_text returns none exactly when there are no captions,
\* and otherwise the text of the last caption whose timestamp is <= T.
C22_TextOfLastCaptionUpTo ==
    reply.op = "get_text" =>
        /\ reply.some <=> lyric.captions # <<>>
        /\ reply.some =>
              \E i \in DOMAIN lyric.captions :
                  /\ LastUpTo(i, LookedUp(reply.time))
                  /\ reply.text = lyric.captions[i].text

\* C22, amended: get_text returns none exactly when there are no captions;
\* otherwise the text of the last caption whose timestamp is <= T, and the
\* text of the first caption when every caption is later than T.
C22_TextOfLastCaptionOrFirst ==
    reply.op = "get_text" =>
        /\ reply.some <=> lyric.captions # <<>>
        /\ reply.some =>
              IF \E i \in DOMAIN lyric.captions : LastUpTo(i, LookedUp(reply.time))
              THEN \E i \in DOMAIN lyric.captions :
                      /\ LastUpTo(i, LookedUp(reply.time))
                      /\ reply.text = lyric.captions[i].text
              ELSE reply.text = lyric.captions[1].text

\* get_text was asked about a time before the first of three captions
C22_Witness ==
    /\ reply.op = "get_text"
    /\ Len(lyric.captions) = 3
    /\ lyric.captions[1].timestamp > LookedUp(reply.time)
    /\ reply.some
    /\ reply.text = lyric.captions[1].text

\* C23: get_index follows the rule of get_text: it returns the position of
\* the last caption whose timestamp is <= max(0, t_ms + 2000 + offset), so
\* the caption at get_index(t*1000) is the one whose text get_text(t) returns.
C23_IndexOfTextReturned ==
    (reply.op = "get_index" /\ reply.some /\ reply.time % 1000 = 0) =>
        /\ reply.index + 1 \in DOMAIN lyric.captions
        /\ lyric.captions[reply.index + 1].text
              = get_text(Held, reply.time).text
        /\ (\E i \in DOMAIN lyric.captions : LastUpTo(i, LookedUp(reply.time)))
              => LastUpTo(reply.index + 1, LookedUp(reply.time))

\* C24: with offset +2000, get_text(t) for t >= 2 s returns the caption that
\* get_text(t - 2 s) returns for the same captions with offset 0.
C24_OffsetShiftsQuery ==
    (reply.op = "get_text" /\ lyric.offset = 2000 /\ reply.time >= 2000) =>
        reply.text = get_text([Held EXCEPT !.offset = 0],
                              reply.time - 2000).text

\* n with caption i (counted from 0) moved by delta, not below 0
Moved(l, i, delta) ==
    [j \in DOMAIN l.captions |->
        IF j = i + 1
        THEN [l.captions[j] EXCEPT !.timestamp = Max(0, @ + delta)]
        ELSE l.captions[j]]

\* a is b in another order
SameCaptions(a, b) ==
    /\ Len(a) = Len(b)
    /\ \E p \in [DOMAIN a -> DOMAIN a] :
          /\ \A j, k \in DOMAIN a : p[j] = p[k] => j = k
          /\ \A j \in DOMAIN a : a[p[j]] = b[j]

C27_AsLrcText ==
    reply.op = "as_lrc_text" =>
        LET k == IF lyric.offset # 0 THEN 1 ELSE 0
        IN  /\ Len(reply.lines) = k + Len(lyric.captions)
            /\ k = 1 =>
                  /\ reply.lines[1].kind = "offset"
                  /\ Int64(reply.lines[1].n) = lyric.offset
            /\ \A i \in DOMAIN lyric.captions :
                  LET l == reply.lines[k + i]
                      ms == lyric.captions[i].timestamp
                  IN  /\ l.kind = "time"
                      /\ l.text = lyric.captions[i].text
                      /\ Len(l.m) = 2 /\ Len(l.s) = 2 /\ Len(l.f) = 2
                      /\ Num(l.m) = (ms \div 60000) % 60
                      /\ Num(l.s) = (ms \div 1000) % 60
                      /\ Num(l.f) = (ms % 1000) \div 10

\* a Lyric with an offset and a caption past the hour was written
C27_Witness ==
    /\ reply.op = "as_lrc_text"
    /\ lyric.offset < 0
    /\ Len(reply.lines) = 3
    /\ lyric.captions[2].timestamp = HourStamp
    /\ reply.lines[3].m = <<0, 1>>
    /\ reply.lines[3].f = <<2, 3>>

(***************************************************************************)
(* duration_to_int on every string of up to MaxPieces pieces, and on an    *)
(* absent duration.                                                        *)
(***************************************************************************)
InitDuration ==
    /\ MoreIdle
    /\ SyncIdle
    /\ PodIdle
    /\ UiIdle
    /\ LrcIdle
    /\ OpmlIdle
    /\ \/ dur = [pc |-> "called", duration |-> None, some |-> FALSE, v |-> 0]
       \/ \E n \in 0..MaxPieces : \E ps \in [1..n -> DurPieces] :
             /\ IsString(ps)
             /\ dur = [pc |-> "called", duration |-> Some(ps),
                       some |-> FALSE, v |-> 0]

NextDuration == \E oc \in BOOLEAN : DurationToInt(oc)

SpecDuration == InitDuration /\ [][NextDuration]_vars

\* the string is H:M:S, M:S or S, each a run of digits
IsDuration(ps) ==
    /\ Len(ps) \in {1, 3, 5}
    /\ \A i \in DOMAIN ps : ps[i].k = (IF i % 2 = 1 THEN "num" ELSE ":")

\* C30: duration_to_int returns H*3600 + M*60 + S for "H:M:S", M*60 + S for
\* "M:S" and S for "S", whatever the size of the components that parse as
\* integers, and none for an absent value or a string of another form; the
\* sum is the exact integer, without overflow.
C30_DurationToInt ==
    dur.pc # "called" /\ dur.pc # "idle" =>
        IF /\ dur.duration.some
           /\ IsDuration(dur.duration.v)
           /\ \A i \in DOMAIN dur.duration.v : dur.duration.v[i].fits
        THEN LET ps == dur.duration.v
                 n == Len(ps)
                 h == IF n = 5 THEN ps[1].v ELSE 0
                 m == IF n = 5 THEN ps[3].v ELSE IF n = 3 THEN ps[1].v ELSE 0
                 s == ps[n].v
             IN  /\ dur.pc = "returned"
                 /\ dur.some
                 /\ ~Overflows(h, m, s)
                 /\ dur.v = h * 3600 + m * 60 + s
        ELSE dur.pc = "returned" /\ ~dur.some

(***************************************************************************)
(* OPML: every list of up to MaxOutlines podcasts is exported and the      *)
(* document imported; every document of up to MaxOutlines outlines, some   *)
(* of them holding an outline, is imported.                                *)
(***************************************************************************)
Leaves ==
    {Outline(text, title, xml_url, <<>>) :
        text \in {"", "x"},
        title \in {None, Some(""), Some("t1")},
        xml_url \in {None, Some("u1")}}

\* a folder: an outline without xml_url that holds one outline
Folders ==
    {Outline("f", None, None, <<l>>) :
        l \in {Outline("x", None, None, <<>>),
               Outline("x", None, Some("u2"), <<>>),
               Outline("", Some("t2"), Some("u2"), <<>>)}}

InitOpml ==
    /\ MoreIdle
    /\ SyncIdle
    /\ PodIdle
    /\ UiIdle
    /\ LrcIdle
    /\ DurIdle
    /\ \/ \E n \in 0..MaxOutlines :
             \E ps \in [1..n -> {Titled(u, t) : u \in {"u1", "u2"}, t \in Titles}] :
                opml = OpmlOf("podcasts", ps, ToXml(<<>>), FALSE, <<>>)
       \/ \E n \in 0..MaxOutlines : \E os \in [1..n -> Leaves \cup Folders] :
             opml = OpmlOf("document", <<>>, ToXml(os), FALSE, <<>>)

NextOpml ==
    \/ ExportOpmlFeeds
    \/ ImportOpmlFeeds

SpecOpml == InitOpml /\ [][NextOpml]_vars

\* C28: exporting a podcast list and importing the document gives one feed
\* per podcast, in the same order, with the podcast's URL, the podcast's
\* title as its title, and no id.
C28_ExportImport ==
    opml.pc = "reimported" =>
        /\ opml.ok
        /\ opml.feeds =
              [i \in DOMAIN opml.podcasts |->
                  PodcastFeed(NoId, opml.podcasts[i].url,
                              Some(opml.podcasts[i].title))]

\* the outlines of a document in document order, those inside an outline
\* after it
RECURSIVE InOrderOutlines(_)
InOrderOutlines(outlines) ==
    IF outlines = <<>>
    THEN <<>>
    ELSE <<outlines[1]>> \o InOrderOutlines(outlines[1].outlines)
         \o InOrderOutlines(SubSeq(outlines, 2, Len(outlines)))

\* the feed of an outline with an xml_url
FeedOf(o) ==
    PodcastFeed(NoId, o.xml_url.v,
                IF o.title.some /\ o.title.v # ""
                THEN o.title
                ELSE IF o.text # "" THEN Some(o.text) ELSE None)

RECURSIVE FeedsOfAll(_)
FeedsOfAll(os) ==
    IF os = <<>>
    THEN <<>>
    ELSE (IF os[1].xml_url.some THEN <<FeedOf(os[1])>> ELSE <<>>)
         \o FeedsOfAll(SubSeq(os, 2, Len(os)))

\* C29: import_opml_feeds returns one feed for every outline with an xml_url,
\* at any nesting level, in document order, with the title attribute when it
\* is present and not empty, else the text attribute when not empty, else
\* none.
C29_EveryOutlineWithUrl ==
    (opml.pc = "imported" /\ opml.ok) =>
        opml.feeds = FeedsOfAll(InOrderOutlines(opml.xml.body))

(***************************************************************************)
(* The resume point: the catalog a finished sync pass leaves for the files *)
(* on disk, then set_last_position and get_last_position on any track.     *)
(***************************************************************************)
InitPosition ==
    /\ LibIdle
    /\ LrcIdle
    /\ PodIdle
    /\ UiIdle
    /\ PosIdle
    /\ adjusts = 0
    /\ WireIdle
    /\ handled = NoCall
    /\ disk \in {d \in [Paths -> ({Absent} \cup Times)] : d["a/n.txt"] = 1}
    /\ max_depth = Unlimited
    /\ catalog = InsertTracks({}, {p \in Paths : Admitted(p)})
    /\ sync = <<IdleThread>>
    /\ env = [fs_ops |-> 0, passes |-> 0]
    /\ observed = FALSE

NextPosition ==
    \/ \E track \in Tracks, d \in Positions, executed \in BOOLEAN :
          SetLastPosition(track, d, executed)
    \/ GetLastPosition

SpecPosition == InitPosition /\ [][NextPosition]_vars

\* C31: for a track that has a catalog row, once set_last_position(track, d)
\* has returned success, get_last_position(track) returns d truncated to
\* whole seconds, and the stored position of every other track is unchanged.
C31_PositionRoundTrip ==
    /\ pos.pc = "got"
    /\ pos.ok
    /\ \E r \in pos.before : r.file = pos.track
    => /\ pos.found
       /\ pos.secs = pos.d \div 1000
       /\ \A r \in catalog : r.file # pos.track => r \in pos.before

(***************************************************************************)
(* The OPML import under fair scheduling: the pool polls every future it   *)
(* holds, every request is answered, and recv() hands out a message that   *)
(* is in the channel.                                                      *)
(***************************************************************************)
\* a step of the future of task t
FeedTaskStep(t) ==
    /\ t \in DOMAIN tasks
    /\ \/ FeedStart(t)
       \/ \E ok \in BOOLEAN, oc \in BOOLEAN : FeedResponse(t, ok, oc)
       \/ \E ok \in BOOLEAN : FeedBody(t, ok)

\* recv() of import_from_opml hands out a message of task t
ImportTakes(t) ==
    /\ t \in DOMAIN tasks
    /\ \E insertOk \in BOOLEAN : ImportRecv(t, insertOk)

FairImport ==
    \A t \in 1..MaxTasks : WF_vars(FeedTaskStep(t)) /\ WF_vars(ImportTakes(t))

SpecImportFair == InitImport /\ [][NextImport]_vars /\ FairImport

\* C32: under fair scheduling of the task pool import_from_opml eventually
\* returns, for every non-empty list of new feeds and every value of
\* max_download_retries, whatever mix of feeds succeed or fail.
C32_ImportReturns == (imp.pc = "waiting") ~> (imp.pc = "returned")

(***************************************************************************)
(* More claims about the podcast tasks (checked under SpecPodcast).        *)
(***************************************************************************)
\* task t is in the retry loop and this step ends the loop by giving up
GivesUp(t) ==
    /\ tasks[t].pc = "fetch"
    /\ tasks'[t].pc = "done"
    /\ tasks'[t].outcome = "fetch_failed"

\* task t is in the retry loop and this step sends one more request
Retries(t) ==
    /\ tasks[t].pc = "fetch"
    /\ tasks'[t].pc = "fetch"
    /\ tasks'[t] # tasks[t]

\* C33: with max_retries = N >= 1, get_feed_data and download_file give up
\* after exactly N requests that all failed (the budget counts attempts, the
\* first included), never send more than N, and a request that succeeds ends
\* the loop with no further request.
C33_BudgetCountsAttempts ==
    [][max_download_retries >= 1 =>
          \A t \in DOMAIN tasks :
              /\ tasks[t].requests <= max_download_retries
              /\ GivesUp(t) => tasks[t].requests = max_download_retries
              /\ Retries(t) =>
                    /\ tasks'[t].requests = tasks[t].requests + 1
                    /\ tasks[t].requests < max_download_retries
              /\ (tasks[t].pc = "fetch" /\ tasks'[t].pc = "body") =>
                    tasks'[t].requests = tasks[t].requests]_tasks

\* with a budget of two, a feed task has given up and sent Error, and a
\* download's second request was answered
C33_Witness ==
    /\ max_download_retries = 2
    /\ \E t \in FeedTasks :
          /\ tasks[t].outcome = "fetch_failed"
          /\ Len(chan[t]) = 2
          /\ chan[t][2].type = "Error"
    /\ \E t \in DlTasks : tasks[t].pc = "body" /\ tasks[t].requests = 2

\* C34: a media download whose HTTP response arrives with a non-2xx status
\* never concludes with DLComplete and never records a local file path for
\* the episode; it is concluded as a network failure (DLResponseError).
C34_Non2xxIsNetworkFailure ==
    \A t \in DlTasks :
        tasks[t].http = "4xx" =>
            /\ ~tasks[t].path
            /\ \A i \in DOMAIN chan[t] :
                  /\ chan[t][i].type # "DLComplete"
                  /\ chan[t][i].path = FALSE
            /\ Len(chan[t]) = 2 => chan[t][2].type = "DLResponseError"

\* C35: a download concludes with DLFileCreateError if and only if creating
\* the destination file failed; the task has then created no file in the
\* destination directory and the event's file_path is absent.
C35_CreateErrorIffCreateFailed ==
    \A t \in DlTasks :
        Len(chan[t]) = 2 =>
            /\ chan[t][2].type = "DLFileCreateError"
                  <=> tasks[t].outcome = "create_failed"
            /\ chan[t][2].type = "DLFileCreateError" =>
                  /\ ~tasks[t].path
                  /\ chan[t][2].path = FALSE

(***************************************************************************)
(* Sequences of adjust_offset calls on a Lyric: up to MaxAdjusts calls     *)
(* after the first, with any of the times and deltas.                      *)
(***************************************************************************)
NextLrcAdjust ==
    \/ \E t \in QueryTimes, d \in Deltas : AdjustOffset(t, d)
    \/ \E t \in QueryTimes, d \in Deltas : AdjustOffsetAgain(t, d)

SpecLrcAdjust == InitLrcUse /\ [][NextLrcAdjust]_vars

TextsOf(caps) == [j \in DOMAIN caps |-> caps[j].text]

\* C36: after any sequence of adjust_offset calls on a Lyric the captions
\* are in non-decreasing timestamp order, every timestamp is >= 0, and the
\* number of captions and their texts are as they were; only the offset may
\* become negative.
C36_AdjustKeepsCaptions ==
    lyric.pc = "adjusted" =>
        /\ IsSorted(lyric.captions)
        /\ \A i \in DOMAIN lyric.captions : lyric.captions[i].timestamp >= 0
        /\ Len(lyric.captions) = Len(lyric.before)
        /\ SameCaptions(TextsOf(lyric.captions), TextsOf(lyric.before))

\* two calls have been made: a caption was moved before its predecessor and
\* the offset made negative
C36_Witness ==
    /\ lyric.pc = "adjusted"
    /\ adjusts = 1
    /\ lyric.offset < 0
    /\ Len(lyric.captions) >= 2
    /\ TextsOf(lyric.captions) # TextsOf(lyric.before)

\* C37: when the lyric has captions and the adjusted lookup time
\* max(0, t + 2000 + offset) is smaller than the first caption's timestamp,
\* get_text returns the first caption's text rather than none; get_text
\* never returns none for a lyric with at least one caption.
C37_FirstCaptionBeforeItsTime ==
    (reply.op = "get_text" /\ lyric.captions # <<>>) =>
        /\ reply.some
        /\ LookedUp(reply.time) < lyric.captions[1].timestamp =>
              reply.text = lyric.captions[1].text

\* get_text was asked, under a negative offset, about a time before the
\* first of two captions
C37_Witness ==
    /\ reply.op = "get_text"
    /\ lyric.offset < 0
    /\ Len(lyric.captions) = 2
    /\ LookedUp(reply.time) < lyric.captions[1].timestamp
    /\ reply.some

\* C38: for a fixed lyric with any offset, a negative one included,
\* get_index is monotone non-decreasing in its time argument, and every
\* t_ms with t_ms + offset < 0 maps to index 0.
C38_IndexMonotone ==
    (reply.op = "get_index" /\ reply.some) =>
        /\ \A t \in QueryTimes :
              reply.time <= t => reply.index <= get_index(Held, t).index
        /\ reply.time + lyric.offset < 0 => reply.index = 0

(***************************************************************************)
(* The update stream: every event is encoded and the message decoded, and  *)
(* messages that lack a part or carry a volume above u16::MAX are decoded. *)
(***************************************************************************)
InitWire ==
    /\ LibIdle
    /\ LrcIdle
    /\ SyncIdle
    /\ PodIdle
    /\ UiIdle
    /\ PosIdle
    /\ adjusts = 0
    /\ handled = NoCall
    /\ \/ \E e \in Events :
             wire = WireOf("event", "encoded", e, [type |-> None], Err("none"))
       \/ \E m \in LackingMessages :
             wire = WireOf("message", "lacking", NoEvent, m, Err("none"))
       \/ \E m \in LoudMessages :
             wire = WireOf("message", "loud", NoEvent, m, Err("none"))

NextWire ==
    \/ Encode
    \/ Decode

SpecWire == InitWire /\ [][NextWire]_vars

\* C39: decoding the message built from an UpdateEvents value e gives back
\* exactly e, for every variant, every nested UpdatePlaylistEvents variant
\* and every PlaylistTrackSource; decoding a message whose variant or
\* required inner message is absent returns an error; a decoded volume above
\* 65535 is clamped to 65535.
C39_DecodeOfEncode ==
    wire.pc = "decoded" =>
        /\ wire.origin = "encoded" =>
              /\ wire.result.ok
              /\ wire.result.v = wire.event
        /\ wire.origin = "lacking" => ~wire.result.ok
        /\ wire.origin = "loud" =>
              /\ wire.result.ok
              /\ wire.result.v.volume = U16Max

\* a PlaylistChanged event that adds a podcast track with a title has been
\* encoded and decoded
C39_Witness ==
    /\ wire.pc = "decoded"
    /\ wire.origin = "encoded"
    /\ wire.event.kind = "PlaylistChanged"
    /\ wire.event.ev.kind = "PlaylistAddTrack"
    /\ wire.event.ev.trackid.kind = "PodcastUrl"
    /\ wire.event.ev.title.some
    /\ wire.result.ok

\* a TUI with two subscriptions, the first with two episodes, one of them
\* downloaded
InitArena ==
    /\ MoreIdle
    /\ LibIdle
    /\ LrcIdle
    /\ SyncIdle
    /\ PodIdle
    /\ rx = RxOpen
    /\ imp = ImpIdle
    /\ db = {Podcast(1, "u1"), Podcast(2, "u2")}
    /\ episodes = {Episode(1, 1, "g1", TRUE), Episode(2, 1, "g2", FALSE)}
    /\ ui = "running"
    /\ arena = Arena(get_podcasts(db, episodes), 0)

\* the feed URLs the TUI can be given
ArenaUrls == {"u1", "u2", "u3"}

\* the items of the feeds fetched for the arena
ArenaItems == {<<"g1">>}

\* the handlers that change the arena, in any order
NextArena ==
    \/ \E stateOk \in BOOLEAN, feed_index \in 0..(MaxPodId - 1),
          filesOk \in BOOLEAN, dbOk \in BOOLEAN :
          PodcastRemoveFeed(stateOk, feed_index, filesOk, dbOk)
    \/ \E filesOk \in BOOLEAN, dbOk \in BOOLEAN :
          PodcastRemoveAllFeeds(filesOk, dbOk)
    \/ \E ep_id \in 1..(2 * MaxPodId) : PodcastFindByEpId(ep_id)
    \/ \E pod_id \in 1..MaxPodId : PodcastFindByPodId(pod_id)
    \/ \E url \in ArenaUrls, items \in ArenaItems, pod_id \in 0..MaxPodId,
          ok \in BOOLEAN : AddOrSyncData(url, items, pod_id, ok)

SpecArena == InitArena /\ [][NextArena]_vars

\* C40: after any sequence of podcast_remove_feed, podcast_remove_all_feeds,
\* podcast_find_by_ep_id, podcast_find_by_pod_id and add_or_sync_data, the
\* list is empty with podcasts_index = 0 or podcasts_index is a position of
\* the list, so 'get podcast selected failed.' cannot come; and a lookup
\* that failed has left podcasts_index as it was
C40_IndexInArena ==
    /\ \/ arena.podcasts = <<>> /\ arena.podcasts_index = 0
       \/ arena.podcasts_index < Len(arena.podcasts)
    /\ ~GetPodcastSelectedFails(arena)
    /\ (handled.op \in {"podcast_find_by_ep_id", "podcast_find_by_pod_id"}
           /\ ~handled.ok)
          => arena.podcasts_index = handled.before

Init == InitPodcast
Next == NextPodcast
Spec == SpecPodcast
====
